---------------------------- MODULE Spec2Model ----------------------------
(***************************************************************************)
(* A model of src/game.py (speed-run mini golf): the ball's physics, the   *)
(* collision handlers, the moving obstacles, the hole capture and teleport *)
(* sequence, the trajectory predictor and the game loop's flags.           *)
(*                                                                         *)
(* Numbers.  The program computes with Python floats.  Here every length,  *)
(* velocity and factor is a fixed-point integer counting 1/SCALE units, a  *)
(* product is rounded to the nearest 1/SCALE (half away from zero), and a  *)
(* square root is rounded down.  Comparisons against the program's         *)
(* thresholds (0.1, 2, 9, the arena bounds) are exact on these values.     *)
(* A float keeps a bounded number of significant bits: Fl rounds a value   *)
(* to MANTISSA significant steps (nearest, ties to even).  A double keeps  *)
(* 2^53; the model keeps 2^20, so that every value inside the arena (below *)
(* 1048.576) is kept as it is and sums round beyond it, the way sums of    *)
(* doubles round on coordinates that are not whole numbers.  Fl is written *)
(* out in handle_obstacle_collision, the handler the model also calls on   *)
(* rectangles off the arena.                                               *)
(***************************************************************************)
EXTENDS Integers, Sequences, FiniteSets

(***************************************************************************)
(* Fixed-point arithmetic                                                  *)
(***************************************************************************)
SCALE == 1000

Abs(a) == IF a < 0 THEN -a ELSE a

Max(a, b) == IF a >= b THEN a ELSE b

Min(a, b) == IF a <= b THEN a ELSE b

\* a / b for b > 0, rounded to the nearest integer, halves away from zero
RoundDiv(a, b) ==
    IF a >= 0 THEN (2 * a + b) \div (2 * b)
    ELSE -((2 * (-a) + b) \div (2 * b))

\* the float product a * k of two fixed-point numbers (split so that the
\* intermediate product stays within TLC's integers)
MulPos(a, k) == (a \div SCALE) * k + RoundDiv((a % SCALE) * k, SCALE)

Mul(a, k) ==
    IF (a >= 0) = (k >= 0) THEN MulPos(Abs(a), Abs(k))
    ELSE -MulPos(Abs(a), Abs(k))

\* the float quotient a / b of two fixed-point numbers, b # 0
Div(a, b) ==
    IF (a >= 0) = (b >= 0) THEN RoundDiv(Abs(a) * SCALE, Abs(b))
    ELSE -RoundDiv(Abs(a) * SCALE, Abs(b))

\* a whole number of units as a fixed-point number
U(n) == n * SCALE

\* the significant steps a float keeps (2^20)
MANTISSA == 1048576

\* the spacing of the floats around a >= 0
RECURSIVE Ulp(_)
Ulp(a) == IF a < MANTISSA THEN 1 ELSE 2 * Ulp(a \div 2)

\* the float nearest to v, ties to the even one: the result of a float sum
\* whose exact value is v
Fl(v) ==
    LET a == Abs(v)
        u == Ulp(a)
        q == a \div u
        r == a % u
        m == IF 2 * r > u \/ (2 * r = u /\ q % 2 = 1) THEN (q + 1) * u ELSE q * u
    IN  IF a < MANTISSA THEN v ELSE IF v < 0 THEN -m ELSE m

\* Newton's iteration from x down to the floor of the square root of n
RECURSIVE Newton(_, _)
Newton(n, x) ==
    CHOOSE r \in { IF y >= x THEN x ELSE Newton(n, y) :
                     y \in { (x + n \div x) \div 2 } } : TRUE

\* floor of the square root of n >= 0
ISqrt(n) == IF n = 0 THEN 0 ELSE Newton(n, n)

\* math.hypot(a, b) on fixed-point numbers
RECURSIVE hypot(_, _)
hypot(a, b) ==
    IF Max(Abs(a), Abs(b)) <= 32000
    THEN ISqrt(a * a + b * b)
    ELSE CHOOSE r \in { 2 * hypot(h, k) :
                          h \in { Abs(a) \div 2 }, k \in { Abs(b) \div 2 } } :
            TRUE

\* math.hypot(a, b) < r for a fixed-point r <= 32000, without overflow
HypotLess(a, b, r) ==
    /\ Abs(a) < r
    /\ Abs(b) < r
    /\ a * a + b * b < r * r

(***************************************************************************)
(* Constants of MiniGolfGame.__init__                                      *)
(***************************************************************************)
WINDOW_WIDTH == 800
WINDOW_HEIGHT == 600
BORDER_THICKNESS == 30
BALL_RADIUS == 10
HOLE_RADIUS == 12
\* 0.75, 0.98, 0.8, 0.1 as fixed-point factors
HOLE_CAPTURE_FACTOR == 750
MAX_POWER == 300
AIR_FRICTION_FACTOR == 980
TOTAL_LEVELS == 5
FRICTION == 980
RESTITUTION == 800
STOP_SPEED == 100
LAUNCH_SPEED == 15
TIMER_START == 100
\* clock.tick(60): a frame lasts 17 ms, and the timer steps at 1000 ms
FRAME_MS == 17
SECOND_MS == 1000


(***************************************************************************)
(* Ball (src/game.py 131-312).  A ball is a record                         *)
(*   [x, y, radius, velocity_x, velocity_y, is_moving, teleporting].       *)
(***************************************************************************)
Angles == {0, 60, 90, 180, 270}

\* math.cos(math.radians(a)) and math.sin(math.radians(a)), a in Angles
cos_deg(a) ==
    CASE a = 0 -> 1000 [] a = 60 -> 500 [] a = 90 -> 0
      [] a = 180 -> -1000 [] a = 270 -> 0

sin_deg(a) ==
    CASE a = 0 -> 0 [] a = 60 -> 866 [] a = 90 -> 1000
      [] a = 180 -> 0 [] a = 270 -> -1000

Ball(x, y, radius) ==
    [x |-> x, y |-> y, radius |-> radius, velocity_x |-> 0, velocity_y |-> 0,
     is_moving |-> FALSE, teleporting |-> FALSE]

launch_along_sine(b, angle_degrees, power, max_power) ==
    LET speed == RoundDiv(power * LAUNCH_SPEED, max_power)
    IN  [b EXCEPT !.is_moving = TRUE,
                  !.velocity_x = Mul(speed, sin_deg(angle_degrees)),
                  !.velocity_y = -Mul(speed, cos_deg(angle_degrees))]

\* Ball.launch: speed = (power / max_power) * 15
launch(b, angle_degrees, power, max_power) ==
    LET speed == RoundDiv(power * LAUNCH_SPEED, max_power)
    IN  [b EXCEPT !.is_moving = TRUE,
                  !.velocity_x = Mul(speed, cos_deg(angle_degrees)),
                  !.velocity_y = -Mul(speed, sin_deg(angle_degrees))]

stop_keeps_velocity_y(b) ==
    [b EXCEPT !.is_moving = FALSE, !.velocity_x = 0]

\* Ball.stop
stop(b) ==
    [b EXCEPT !.is_moving = FALSE, !.velocity_x = 0, !.velocity_y = 0]

Ball_update_without_stop(b) ==
    IF b.is_moving /\ ~b.teleporting
    THEN [b EXCEPT !.velocity_x = Mul(b.velocity_x, FRICTION),
                   !.velocity_y = Mul(b.velocity_y, FRICTION),
                   !.x = b.x + Mul(b.velocity_x, FRICTION),
                   !.y = b.y + Mul(b.velocity_y, FRICTION)]
    ELSE b

\* Ball.update: friction, then the move, then the low-speed stop
Ball_update(b) ==
    IF b.is_moving /\ ~b.teleporting
    THEN LET vx == Mul(b.velocity_x, FRICTION)
             vy == Mul(b.velocity_y, FRICTION)
             moved == [b EXCEPT !.velocity_x = vx, !.velocity_y = vy,
                                !.x = b.x + vx, !.y = b.y + vy]
         IN  IF Abs(vx) < STOP_SPEED /\ Abs(vy) < STOP_SPEED
             THEN stop(moved)
             ELSE moved
    ELSE b

handle_border_collision_elif(b, border_thickness, window_width, window_height) ==
    IF b.x - b.radius < border_thickness
    THEN [b EXCEPT !.x = border_thickness + b.radius,
                   !.velocity_x = Mul(b.velocity_x, -RESTITUTION)]
    ELSE IF b.x + b.radius > window_width - border_thickness
    THEN [b EXCEPT !.x = window_width - border_thickness - b.radius,
                   !.velocity_x = Mul(b.velocity_x, -RESTITUTION)]
    ELSE IF b.y - b.radius < border_thickness
    THEN [b EXCEPT !.y = border_thickness + b.radius,
                   !.velocity_y = Mul(b.velocity_y, -RESTITUTION)]
    ELSE IF b.y + b.radius > window_height - border_thickness
    THEN [b EXCEPT !.y = window_height - border_thickness - b.radius,
                   !.velocity_y = Mul(b.velocity_y, -RESTITUTION)]
    ELSE b

\* Ball.handle_border_collision: four independent tests, in this order
handle_border_collision(b, border_thickness, window_width, window_height) ==
    LET b1 == IF b.x - b.radius < border_thickness
              THEN [b EXCEPT !.x = border_thickness + b.radius,
                             !.velocity_x = Mul(b.velocity_x, -RESTITUTION)]
              ELSE b
        b2 == IF b1.x + b1.radius > window_width - border_thickness
              THEN [b1 EXCEPT !.x = window_width - border_thickness - b1.radius,
                              !.velocity_x = Mul(b1.velocity_x, -RESTITUTION)]
              ELSE b1
        b3 == IF b2.y - b2.radius < border_thickness
              THEN [b2 EXCEPT !.y = border_thickness + b2.radius,
                              !.velocity_y = Mul(b2.velocity_y, -RESTITUTION)]
              ELSE b2
    IN  IF b3.y + b3.radius > window_height - border_thickness
        THEN [b3 EXCEPT !.y = window_height - border_thickness - b3.radius,
                        !.velocity_y = Mul(b3.velocity_y, -RESTITUTION)]
        ELSE b3

handle_obstacle_collision_top_first(b, o) ==
    IF /\ Fl(b.x + b.radius) > o.x
       /\ Fl(b.x - b.radius) < Fl(o.x + o.width)
       /\ Fl(b.y + b.radius) > o.y
       /\ Fl(b.y - b.radius) < Fl(o.y + o.height)
    THEN LET penetration_left == Abs(Fl(Fl(b.x + b.radius) - o.x))
             penetration_right ==
                 Abs(Fl(Fl(b.x - b.radius) - Fl(o.x + o.width)))
             penetration_top == Abs(Fl(Fl(b.y + b.radius) - o.y))
             penetration_bottom ==
                 Abs(Fl(Fl(b.y - b.radius) - Fl(o.y + o.height)))
             min_pen == Min(Min(penetration_left, penetration_right),
                            Min(penetration_top, penetration_bottom))
         IN  IF min_pen = penetration_top
             THEN [b |-> [b EXCEPT !.y = Fl(o.y - b.radius),
                                   !.velocity_y = Mul(b.velocity_y, -RESTITUTION)],
                   side |-> "top"]
             ELSE IF min_pen = penetration_bottom
             THEN [b |-> [b EXCEPT !.y = Fl(Fl(o.y + o.height) + b.radius),
                                   !.velocity_y = Mul(b.velocity_y, -RESTITUTION)],
                   side |-> "bottom"]
             ELSE IF min_pen = penetration_left
             THEN [b |-> [b EXCEPT !.x = Fl(o.x - b.radius),
                                   !.velocity_x = Mul(b.velocity_x, -RESTITUTION)],
                   side |-> "left"]
             ELSE [b |-> [b EXCEPT !.x = Fl(Fl(o.x + o.width) + b.radius),
                                   !.velocity_x = Mul(b.velocity_x, -RESTITUTION)],
                   side |-> "right"]
    ELSE [b |-> b, side |-> "None"]

\* Ball.handle_obstacle_collision on the rectangle o = [x, y, width, height];
\* the result is [b |-> the ball after the call, side |-> the value returned]
handle_obstacle_collision(b, o) ==
    IF /\ Fl(b.x + b.radius) > o.x
       /\ Fl(b.x - b.radius) < Fl(o.x + o.width)
       /\ Fl(b.y + b.radius) > o.y
       /\ Fl(b.y - b.radius) < Fl(o.y + o.height)
    THEN LET penetration_left == Abs(Fl(Fl(b.x + b.radius) - o.x))
             penetration_right ==
                 Abs(Fl(Fl(b.x - b.radius) - Fl(o.x + o.width)))
             penetration_top == Abs(Fl(Fl(b.y + b.radius) - o.y))
             penetration_bottom ==
                 Abs(Fl(Fl(b.y - b.radius) - Fl(o.y + o.height)))
             min_pen == Min(Min(penetration_left, penetration_right),
                            Min(penetration_top, penetration_bottom))
         IN  IF min_pen = penetration_left
             THEN [b |-> [b EXCEPT !.x = Fl(o.x - b.radius),
                                   !.velocity_x = Mul(b.velocity_x, -RESTITUTION)],
                   side |-> "left"]
             ELSE IF min_pen = penetration_right
             THEN [b |-> [b EXCEPT !.x = Fl(Fl(o.x + o.width) + b.radius),
                                   !.velocity_x = Mul(b.velocity_x, -RESTITUTION)],
                   side |-> "right"]
             ELSE IF min_pen = penetration_top
             THEN [b |-> [b EXCEPT !.y = Fl(o.y - b.radius),
                                   !.velocity_y = Mul(b.velocity_y, -RESTITUTION)],
                   side |-> "top"]
             ELSE [b |-> [b EXCEPT !.y = Fl(Fl(o.y + o.height) + b.radius),
                                   !.velocity_y = Mul(b.velocity_y, -RESTITUTION)],
                   side |-> "bottom"]
    ELSE [b |-> b, side |-> "None"]

\* Obstacle.get_collision_rect
get_collision_rect(o) ==
    [x |-> o.x, y |-> o.y, width |-> o.width, height |-> o.height]

\* Ball.handle_platform_collision: an oscillating platform hands half of its
\* signed speed to the matching velocity component
handle_platform_collision(b, platform) ==
    LET r == handle_obstacle_collision(b, get_collision_rect(platform))
        boost == Mul(platform.speed * platform.dir, 500)
    IN  IF r.side \in {"left", "right"} /\ platform.move_type = "horizontal"
        THEN [r.b EXCEPT !.velocity_x = @ + boost]
        ELSE IF r.side \in {"top", "bottom"} /\ platform.move_type = "vertical"
        THEN [r.b EXCEPT !.velocity_y = @ + boost]
        ELSE r.b

\* Ball.handle_repulsor_collision; the result is
\* [b |-> the ball after the call, hit |-> the value returned]
handle_repulsor_collision_without_floor(b, repulsor, current_level) ==
    LET dx == b.x - repulsor.x
        dy == b.y - repulsor.y
        reach == b.radius + repulsor.radius
    IN  IF HypotLess(dx, dy, reach)
        THEN LET dist == hypot(dx, dy)
                 norm_dx == IF dist > 0 THEN Div(dx, dist) ELSE SCALE
                 norm_dy == IF dist > 0 THEN Div(dy, dist) ELSE 0
                 push_amount == reach - dist + 100
                 px == IF dist > 0 THEN b.x + Mul(norm_dx, push_amount)
                       ELSE b.x + push_amount
                 py == IF dist > 0 THEN b.y + Mul(norm_dy, push_amount)
                       ELSE b.y
                 incoming == hypot(b.velocity_x, b.velocity_y)
                 launch_speed == 4 * incoming
                 pushed == [b EXCEPT !.x = px, !.y = py]
             IN  [hit |-> TRUE,
                  b |-> IF current_level = 4
                        THEN [pushed EXCEPT
                                !.velocity_x = Mul(norm_dx, launch_speed),
                                !.velocity_y = Mul(norm_dy, launch_speed)]
                        ELSE IF current_level = 5
                        THEN IF incoming > 0
                             THEN [pushed EXCEPT
                                     !.velocity_x = -Mul(4 * incoming,
                                                         Div(b.velocity_x, incoming)),
                                     !.velocity_y = -Mul(4 * incoming,
                                                         Div(b.velocity_y, incoming))]
                             ELSE pushed
                        ELSE [pushed EXCEPT
                                !.velocity_x = Mul(b.velocity_x, -1100),
                                !.velocity_y = Mul(b.velocity_y, -1100)]]
        ELSE [hit |-> FALSE, b |-> b]

handle_repulsor_collision(b, repulsor, current_level) ==
    LET dx == b.x - repulsor.x
        dy == b.y - repulsor.y
        reach == b.radius + repulsor.radius
    IN  IF HypotLess(dx, dy, reach)
        THEN LET dist == hypot(dx, dy)
                 norm_dx == IF dist > 0 THEN Div(dx, dist) ELSE SCALE
                 norm_dy == IF dist > 0 THEN Div(dy, dist) ELSE 0
                 push_amount == reach - dist + 100
                 px == IF dist > 0 THEN b.x + Mul(norm_dx, push_amount)
                       ELSE b.x + push_amount
                 py == IF dist > 0 THEN b.y + Mul(norm_dy, push_amount)
                       ELSE b.y
                 incoming == hypot(b.velocity_x, b.velocity_y)
                 launch_speed == 4 * Max(incoming, SCALE)
                 pushed == [b EXCEPT !.x = px, !.y = py]
             IN  [hit |-> TRUE,
                  b |-> IF current_level = 4
                        THEN [pushed EXCEPT
                                !.velocity_x = Mul(norm_dx, launch_speed),
                                !.velocity_y = Mul(norm_dy, launch_speed)]
                        ELSE IF current_level = 5
                        THEN IF incoming > 0
                             THEN [pushed EXCEPT
                                     !.velocity_x = -Mul(4 * incoming,
                                                         Div(b.velocity_x, incoming)),
                                     !.velocity_y = -Mul(4 * incoming,
                                                         Div(b.velocity_y, incoming))]
                             ELSE pushed
                        ELSE [pushed EXCEPT
                                !.velocity_x = Mul(b.velocity_x, -1100),
                                !.velocity_y = Mul(b.velocity_y, -1100)]]
        ELSE [hit |-> FALSE, b |-> b]

teleport_without_snap(b, hole_x, hole_y) ==
    IF hypot(hole_x - b.x, hole_y - b.y) < U(2)
    THEN [done |-> TRUE,
          b |-> [b EXCEPT !.velocity_x = 0, !.velocity_y = 0,
                          !.is_moving = FALSE]]
    ELSE [done |-> FALSE,
          b |-> [b EXCEPT !.x = b.x + Mul(hole_x - b.x, 200),
                          !.y = b.y + Mul(hole_y - b.y, 200),
                          !.velocity_x = Mul(b.velocity_x, RESTITUTION),
                          !.velocity_y = Mul(b.velocity_y, RESTITUTION)]]

\* Ball.teleport_to_hole; the result is
\* [b |-> the ball after the call, done |-> the value returned]
teleport_to_hole(b, hole_x, hole_y) ==
    LET dx == hole_x - b.x
        dy == hole_y - b.y
        distance == hypot(dx, dy)
        move_factor == Min(200, distance \div 10)
    IN  IF distance < U(2)
        THEN [done |-> TRUE,
              b |-> [b EXCEPT !.x = hole_x, !.y = hole_y, !.velocity_x = 0,
                              !.velocity_y = 0, !.is_moving = FALSE]]
        ELSE [done |-> FALSE,
              b |-> [b EXCEPT !.x = b.x + Mul(dx, move_factor),
                              !.y = b.y + Mul(dy, move_factor),
                              !.velocity_x = Mul(b.velocity_x, RESTITUTION),
                              !.velocity_y = Mul(b.velocity_y, RESTITUTION)]]

(***************************************************************************)
(* Obstacles and levels (src/game.py 29-121, 374-429, 539-695)             *)
(***************************************************************************)
Rect(x, y, w, h) == [x |-> U(x), y |-> U(y), width |-> U(w), height |-> U(h)]

\* MiniGolfGame.setup_levels: hole_positions
hole_positions ==
    << <<U(600), U(400)>>, <<U(400), U(100)>>, <<U(400), U(300)>>,
       <<U(200), U(200)>>, <<U(700), U(500)>> >>

\* MiniGolfGame.setup_levels: course_walls, one list of Wall per level
course_walls ==
    << << Rect(150, 100, 500, 15), Rect(150, 100, 15, 350),
          Rect(150, 450, 400, 15), Rect(550, 250, 15, 215) >>,
       << >>,
       << Rect(100, 100, 600, 15), Rect(100, 485, 600, 15),
          Rect(100, 100, 15, 150), Rect(100, 335, 15, 150),
          Rect(685, 100, 15, 150), Rect(685, 335, 15, 150),
          Rect(200, 200, 15, 200), Rect(585, 200, 15, 200),
          Rect(200, 200, 100, 15), Rect(500, 200, 100, 15),
          Rect(200, 385, 100, 15), Rect(500, 385, 100, 15),
          Rect(350, 150, 100, 15), Rect(350, 435, 100, 15),
          Rect(250, 292, 15, 30), Rect(535, 292, 15, 30) >>,
       << Rect(200, 150, 400, 15), Rect(200, 450, 400, 15),
          Rect(150, 200, 15, 200), Rect(635, 200, 15, 200),
          Rect(300, 300, 200, 15) >>,
       << >> >>

\* MovingPlatform.__init__ for the two oscillating modes
Vertical(x, y, w, h, amp, speed, dir) ==
    [x |-> U(x), y |-> U(y), width |-> U(w), height |-> U(h),
     move_type |-> "vertical", base_x |-> 0, base_y |-> U(y), amp |-> U(amp),
     speed |-> speed, dir |-> dir, dx |-> 0, dy |-> 0]

Horizontal(x, y, w, h, amp, speed, dir) ==
    [x |-> U(x), y |-> U(y), width |-> U(w), height |-> U(h),
     move_type |-> "horizontal", base_x |-> U(x), base_y |-> 0, amp |-> U(amp),
     speed |-> speed, dir |-> dir, dx |-> 0, dy |-> 0]

\* MovingPlatform.__init__ for the random mode (x, y, dx, dy in 1/SCALE)
Random(x, y, w, h, dx, dy) ==
    [x |-> x, y |-> y, width |-> U(w), height |-> U(h),
     move_type |-> "random", base_x |-> 0, base_y |-> 0, amp |-> 0,
     speed |-> 0, dir |-> 1, dx |-> dx, dy |-> dy]

\* Repulsor.__init__
Repulsor(x, y, radius, dx, dy) ==
    [x |-> x, y |-> y, radius |-> U(radius), dx |-> dx, dy |-> dy]

\* The draws of random.uniform in setup_moving_platforms and setup_repulsors
\* are one of these samples: sample s gives the i-th level-5 platform and
\* repulsor a position inside the ranges the code draws from and a drift in
\* [-2, 2] per axis.
Samples == {1, 2}

RANDOM_PLATFORMS == 12
RANDOM_REPULSORS == 10

Drift(n) == ((n % 41) - 20) * 100

level5_platforms(s) ==
    [i \in 1..RANDOM_PLATFORMS |->
        Random(U(BORDER_THICKNESS + 50) + ((i * 97 + s * 31) % 631) * SCALE,
               U(BORDER_THICKNESS + 50) + ((i * 61 + s * 17) % 481) * SCALE,
               60, 10, Drift(i * 7 + s * 3), Drift(i * 11 + s * 5))]

level5_repulsors(s) ==
    [i \in 1..RANDOM_REPULSORS |->
        Repulsor(U(BORDER_THICKNESS + 30) + ((i * 83 + s * 29) % 681) * SCALE,
                 U(BORDER_THICKNESS + 30) + ((i * 47 + s * 13) % 481) * SCALE,
                 15, Drift(i * 13 + s * 7), Drift(i * 17 + s * 11))]

\* MiniGolfGame.setup_moving_platforms
setup_moving_platforms(s) ==
    << << >>,
       << Vertical(150, 200, 80, 15, 70, 1000, 1),
          Vertical(350, 300, 80, 15, 60, 1200, -1),
          Vertical(550, 200, 80, 15, 80, 800, 1),
          Horizontal(200, 180, 80, 15, 100, 1500, 1),
          Horizontal(450, 280, 80, 15, 120, 1000, -1) >>,
       << Horizontal(150, 250, 100, 15, 70, 1500, 1),
          Vertical(600, 300, 80, 15, 100, 1800, -1),
          Horizontal(300, 150, 150, 15, 150, 2500, 1) >>,
       << Horizontal(250, 200, 100, 15, 50, 1000, 1),
          Vertical(450, 350, 100, 15, 50, 1200, -1) >>,
       level5_platforms(s) >>

\* MiniGolfGame.setup_repulsors
setup_repulsors(s) ==
    << << >>, << >>, << >>,
       << Repulsor(U(300), U(200), 20, 0, 0), Repulsor(U(500), U(200), 20, 0, 0),
          Repulsor(U(150), U(350), 15, 0, 0), Repulsor(U(650), U(350), 15, 0, 0) >>,
       level5_repulsors(s) >>

MovingPlatform_update_one_move(p, border_thickness, window_width, window_height) ==
    IF p.move_type = "vertical"
    THEN LET y1 == p.y + p.speed * p.dir
         IN  IF Abs(y1 - p.base_y) >= p.amp
             THEN [p EXCEPT !.dir = -p.dir, !.y = y1]
             ELSE [p EXCEPT !.y = y1]
    ELSE IF p.move_type = "horizontal"
    THEN LET x1 == p.x + p.speed * p.dir
         IN  IF Abs(x1 - p.base_x) >= p.amp
             THEN [p EXCEPT !.dir = -p.dir, !.x = x1]
             ELSE [p EXCEPT !.x = x1]
    ELSE LET x1 == p.x + p.dx
             y1 == p.y + p.dy
         IN  [p EXCEPT !.x = x1, !.y = y1,
                !.dx = IF x1 < border_thickness
                          \/ x1 + p.width > window_width - border_thickness
                       THEN -p.dx ELSE p.dx,
                !.dy = IF y1 < border_thickness
                          \/ y1 + p.height > window_height - border_thickness
                       THEN -p.dy ELSE p.dy]

\* MovingPlatform.update
MovingPlatform_update(p, border_thickness, window_width, window_height) ==
    IF p.move_type = "vertical"
    THEN LET y1 == p.y + p.speed * p.dir
         IN  IF Abs(y1 - p.base_y) >= p.amp
             THEN [p EXCEPT !.dir = -p.dir, !.y = y1 + p.speed * (-p.dir)]
             ELSE [p EXCEPT !.y = y1]
    ELSE IF p.move_type = "horizontal"
    THEN LET x1 == p.x + p.speed * p.dir
         IN  IF Abs(x1 - p.base_x) >= p.amp
             THEN [p EXCEPT !.dir = -p.dir, !.x = x1 + p.speed * (-p.dir)]
             ELSE [p EXCEPT !.x = x1]
    ELSE LET x1 == p.x + p.dx
             y1 == p.y + p.dy
         IN  [p EXCEPT !.x = x1, !.y = y1,
                !.dx = IF x1 < border_thickness
                          \/ x1 + p.width > window_width - border_thickness
                       THEN -p.dx ELSE p.dx,
                !.dy = IF y1 < border_thickness
                          \/ y1 + p.height > window_height - border_thickness
                       THEN -p.dy ELSE p.dy]

Repulsor_update_test_before_move(r, border_thickness, window_width, window_height) ==
    LET x1 == r.x + r.dx
        y1 == r.y + r.dy
    IN  [r EXCEPT !.x = x1, !.y = y1,
           !.dx = IF r.x - r.radius < border_thickness
                     \/ r.x + r.radius > window_width - border_thickness
                  THEN -r.dx ELSE r.dx,
           !.dy = IF r.y - r.radius < border_thickness
                     \/ r.y + r.radius > window_height - border_thickness
                  THEN -r.dy ELSE r.dy]

\* Repulsor.update
Repulsor_update(r, border_thickness, window_width, window_height) ==
    LET x1 == r.x + r.dx
        y1 == r.y + r.dy
    IN  [r EXCEPT !.x = x1, !.y = y1,
           !.dx = IF x1 - r.radius < border_thickness
                     \/ x1 + r.radius > window_width - border_thickness
                  THEN -r.dx ELSE r.dx,
           !.dy = IF y1 - r.radius < border_thickness
                     \/ y1 + r.radius > window_height - border_thickness
                  THEN -r.dy ELSE r.dy]

\* Level.update on the platforms of one level
Level_update_platforms(ps) ==
    [i \in DOMAIN ps |->
        MovingPlatform_update(ps[i], U(BORDER_THICKNESS), U(WINDOW_WIDTH),
                              U(WINDOW_HEIGHT))]

\* Level.update on the repulsors of one level
Level_update_repulsors(rs) ==
    [i \in DOMAIN rs |->
        Repulsor_update(rs[i], U(BORDER_THICKNESS), U(WINDOW_WIDTH),
                        U(WINDOW_HEIGHT))]

\* Level.get_all_obstacles: the walls, then the platforms
get_all_obstacles(walls, ps) ==
    walls \o [i \in DOMAIN ps |-> get_collision_rect(ps[i])]

(***************************************************************************)
(* The game (src/game.py 432-975).  A game value g is the record of the    *)
(* MiniGolfGame fields the physics reads and writes.  levels[i] is split   *)
(* into course_walls[i], g.platforms[i] and g.repulsors[i];                *)
(* g.current_level_obj is the index of the Level that current_level_obj    *)
(* refers to.  g.hole_sound_plays counts hole_sound.play() calls, and      *)
(* g.step_log lists the steps the last running update() executed, each     *)
(* with the ball it left: [step, idx, b], where idx is the level updated   *)
(* (step "level"), the place of the obstacle in its list (steps "wall",    *)
(* "platform", "repulsor") or 1 for a teleport call that returned True.    *)
(***************************************************************************)
START_X == BORDER_THICKNESS + BALL_RADIUS + 20
START_Y == WINDOW_HEIGHT \div 2

Step(ctx, name, idx, newb) ==
    [b |-> newb,
     log |-> Append(ctx.log, [step |-> name, idx |-> idx, b |-> newb])]

\* MiniGolfGame.reset_level
reset_level(g) ==
    [g EXCEPT !.ball = [stop([g.ball EXCEPT !.x = U(START_X), !.y = U(START_Y)])
                          EXCEPT !.teleporting = FALSE],
              !.current_level_obj = g.current_level]

\* MiniGolfGame.reset_game
reset_game(g) ==
    reset_level([g EXCEPT !.current_level = 1, !.timer_seconds = TIMER_START,
                          !.game_over = FALSE, !.game_won = FALSE])

\* MiniGolfGame.update_timer
update_timer(g) ==
    IF g.timer_seconds > 0
    THEN [g EXCEPT !.timer_seconds = g.timer_seconds - 1]
    ELSE [g EXCEPT !.game_over = TRUE]

\* Evaluation order.  Where one step's result feeds the next, the result is
\* bound first, as the one element v of a set {e}, and the next step is
\* applied to v: CHOOSE r \in {F(v) : v \in {e}} : TRUE is F(e) with e
\* evaluated once.

\* update(): the wall loop, lines 944-945
RECURSIVE collide_walls(_, _, _)
collide_walls(ctx, walls, i) ==
    IF i > Len(walls) THEN ctx
    ELSE CHOOSE r \in
            { collide_walls(next, walls, i + 1) :
                next \in { Step(ctx, "wall", i,
                                handle_obstacle_collision(
                                    ctx.b, get_collision_rect(walls[i])).b) } } :
            TRUE

\* update(): the platform loop, lines 948-949
RECURSIVE collide_platforms(_, _, _)
collide_platforms(ctx, ps, i) ==
    IF i > Len(ps) THEN ctx
    ELSE CHOOSE r \in
            { collide_platforms(next, ps, i + 1) :
                next \in { Step(ctx, "platform", i,
                                handle_platform_collision(ctx.b, ps[i])) } } :
            TRUE

\* update(): the repulsor loop, lines 952-953
RECURSIVE collide_repulsors(_, _, _, _)
collide_repulsors(ctx, rs, level, i) ==
    IF i > Len(rs) THEN ctx
    ELSE CHOOSE r \in
            { collide_repulsors(next, rs, level, i + 1) :
                next \in { Step(ctx, "repulsor", i,
                                handle_repulsor_collision(ctx.b, rs[i], level).b) } } :
            TRUE

\* update(): the border step, lines 937-941
border_step(ctx) ==
    Step(ctx, "border", 0,
         handle_border_collision(ctx.b, U(BORDER_THICKNESS), U(WINDOW_WIDTH),
                                 U(WINDOW_HEIGHT)))

\* update(): the hole-capture check, lines 956-961
hole_check(ctx, hole) ==
    Step(ctx, "hole", 0,
         IF HypotLess(hole[1] - ctx.b.x, hole[2] - ctx.b.y,
                      Mul(U(HOLE_RADIUS), HOLE_CAPTURE_FACTOR))
         THEN [ctx.b EXCEPT !.teleporting = TRUE]
         ELSE ctx.b)

hole_check_first(ctx, walls, ps, rs, level, hole) ==
    CHOOSE r \in
        { collide_repulsors(c4, rs, level, 1) :
            c4 \in { collide_platforms(c3, ps, 1) :
            c3 \in { collide_walls(c2, walls, 1) :
            c2 \in { border_step(c1) :
            c1 \in { hole_check(ctx, hole) } } } } } :
        TRUE

\* update(): the block run for a moving ball that is not teleporting, lines
\* 935-961: border, walls, platforms, repulsors, hole check
collisions(ctx, walls, ps, rs, level, hole) ==
    CHOOSE r \in
        { hole_check(c4, hole) :
            c4 \in { collide_repulsors(c3, rs, level, 1) :
            c3 \in { collide_platforms(c2, ps, 1) :
            c2 \in { collide_walls(c1, walls, 1) :
            c1 \in { border_step(ctx) } } } } } :
        TRUE

teleport_result_without_reset(g, ctx, t) ==
    IF t.done
    THEN LET g1 == [g EXCEPT
                      !.ball = [t.b EXCEPT !.teleporting = FALSE],
                      !.hole_sound_plays = g.hole_sound_plays + 1,
                      !.step_log = Append(ctx.log,
                                          [step |-> "teleport", idx |-> 1,
                                           b |-> t.b])]
         IN  IF g.current_level = TOTAL_LEVELS
             THEN [g1 EXCEPT !.game_won = TRUE]
             ELSE [g1 EXCEPT !.current_level = g.current_level + 1]
    ELSE [g EXCEPT !.ball = t.b,
                   !.step_log = Append(ctx.log,
                                       [step |-> "teleport", idx |-> 0,
                                        b |-> t.b])]

\* update(): the teleport sequence, lines 964-975, on the game g whose ball
\* and log are those of ctx; t is the result of teleport_to_hole
teleport_result(g, ctx, t) ==
    IF t.done
    THEN LET g1 == [g EXCEPT
                      !.ball = [t.b EXCEPT !.teleporting = FALSE],
                      !.hole_sound_plays = g.hole_sound_plays + 1,
                      !.step_log = Append(ctx.log,
                                          [step |-> "teleport", idx |-> 1,
                                           b |-> t.b])]
         IN  IF g.current_level = TOTAL_LEVELS
             THEN [g1 EXCEPT !.game_won = TRUE]
             ELSE reset_level([g1 EXCEPT !.current_level = g.current_level + 1])
    ELSE [g EXCEPT !.ball = t.b,
                   !.step_log = Append(ctx.log,
                                       [step |-> "teleport", idx |-> 0,
                                        b |-> t.b])]

teleport_sequence(g, ctx, hole) ==
    IF ctx.b.teleporting
    THEN CHOOSE r \in
            { teleport_result(g, ctx, t) :
                t \in { teleport_to_hole(ctx.b, hole[1], hole[2]) } } :
            TRUE
    ELSE [g EXCEPT !.ball = ctx.b, !.step_log = ctx.log]

\* update(): the timer, lines 924-927, with dt = FRAME_MS
update_clock(g) ==
    IF g.timer_counter + FRAME_MS >= SECOND_MS
    THEN [update_timer(g) EXCEPT !.timer_counter = 0]
    ELSE [g EXCEPT !.timer_counter = g.timer_counter + FRAME_MS]

update_level_while_moving(g) ==
    IF g.ball.is_moving
    THEN [g EXCEPT
            !.platforms[g.current_level_obj] =
                Level_update_platforms(g.platforms[g.current_level_obj]),
            !.repulsors[g.current_level_obj] =
                Level_update_repulsors(g.repulsors[g.current_level_obj])]
    ELSE g

\* update(): current_level_obj.update(dt), line 930
update_level(g) ==
    [g EXCEPT
       !.platforms[g.current_level_obj] =
           Level_update_platforms(g.platforms[g.current_level_obj]),
       !.repulsors[g.current_level_obj] =
           Level_update_repulsors(g.repulsors[g.current_level_obj])]

\* update(): ball.update(dt) and the collision block, lines 933-961, on the
\* game g whose obstacles have been updated
update_ball(g, c1) ==
    IF c1.b.is_moving /\ ~c1.b.teleporting
    THEN collisions(c1, course_walls[g.current_level_obj],
                    g.platforms[g.current_level_obj],
                    g.repulsors[g.current_level_obj],
                    g.current_level, hole_positions[g.current_level_obj])
    ELSE c1

MiniGolfGame_update_while_paused(g) ==
    IF g.game_over \/ g.game_won
    THEN g
    ELSE CHOOSE r \in
            { teleport_sequence(g2, c2, hole_positions[g2.current_level_obj]) :
                <<g2, c2>> \in
                    { <<g1, update_ball(g1, c1)>> :
                        <<g1, c1>> \in
                            { <<g0, Step(Step([b |-> g0.ball, log |-> << >>],
                                              "level", g0.current_level_obj,
                                              g0.ball),
                                         "integrate", 0, Ball_update(g0.ball))>> :
                                g0 \in { update_level(update_clock(g)) } } } } :
            TRUE

\* MiniGolfGame.update(dt) with dt = FRAME_MS
MiniGolfGame_update(g) ==
    IF g.game_paused \/ g.game_over \/ g.game_won
    THEN g
    ELSE CHOOSE r \in
            { teleport_sequence(g2, c2, hole_positions[g2.current_level_obj]) :
                <<g2, c2>> \in
                    { <<g1, update_ball(g1, c1)>> :
                        <<g1, c1>> \in
                            { <<g0, Step(Step([b |-> g0.ball, log |-> << >>],
                                              "level", g0.current_level_obj,
                                              g0.ball),
                                         "integrate", 0, Ball_update(g0.ball))>> :
                                g0 \in { update_level(update_clock(g)) } } } } :
            TRUE

(***************************************************************************)
(* The trajectory predictor (src/game.py 722-784).  The simulated ball is  *)
(* the record [x, y, vel_x, vel_y].                                        *)
(***************************************************************************)
\* range(200)
PREDICT_STEPS == 200

\* predict_trajectory(): one rectangle of the obstacle loop, lines 754-776
predict_obstacle(sim, o) ==
    IF /\ sim.x + U(BALL_RADIUS) > o.x
       /\ sim.x - U(BALL_RADIUS) < o.x + o.width
       /\ sim.y + U(BALL_RADIUS) > o.y
       /\ sim.y - U(BALL_RADIUS) < o.y + o.height
    THEN LET penetration_left == Abs(sim.x + U(BALL_RADIUS) - o.x)
             penetration_right == Abs(sim.x - U(BALL_RADIUS) - (o.x + o.width))
             penetration_top == Abs(sim.y + U(BALL_RADIUS) - o.y)
             penetration_bottom == Abs(sim.y - U(BALL_RADIUS) - (o.y + o.height))
             min_pen == Min(Min(penetration_left, penetration_right),
                            Min(penetration_top, penetration_bottom))
         IN  IF min_pen = penetration_left
             THEN [sim EXCEPT !.x = o.x - U(BALL_RADIUS),
                              !.vel_x = Mul(sim.vel_x, -RESTITUTION)]
             ELSE IF min_pen = penetration_right
             THEN [sim EXCEPT !.x = o.x + o.width + U(BALL_RADIUS),
                              !.vel_x = Mul(sim.vel_x, -RESTITUTION)]
             ELSE IF min_pen = penetration_top
             THEN [sim EXCEPT !.y = o.y - U(BALL_RADIUS),
                              !.vel_y = Mul(sim.vel_y, -RESTITUTION)]
             ELSE [sim EXCEPT !.y = o.y + o.height + U(BALL_RADIUS),
                              !.vel_y = Mul(sim.vel_y, -RESTITUTION)]
    ELSE sim

\* predict_trajectory(): the obstacle loop, line 754
RECURSIVE predict_obstacles(_, _, _)
predict_obstacles(sim, obstacles, i) ==
    IF i > Len(obstacles) THEN sim
    ELSE CHOOSE r \in
            { predict_obstacles(next, obstacles, i + 1) :
                next \in { predict_obstacle(sim, obstacles[i]) } } :
            TRUE

\* predict_trajectory(): the move and the friction, lines 733-738
predict_move(sim) ==
    [sim EXCEPT !.x = sim.x + sim.vel_x,
                !.y = sim.y + sim.vel_y,
                !.vel_x = Mul(sim.vel_x, AIR_FRICTION_FACTOR),
                !.vel_y = Mul(sim.vel_y, AIR_FRICTION_FACTOR)]

\* predict_trajectory(): the border tests, lines 740-752
predict_border(sim) ==
    LET s1 == IF sim.x - U(BALL_RADIUS) < U(BORDER_THICKNESS)
              THEN [sim EXCEPT !.x = U(BORDER_THICKNESS) + U(BALL_RADIUS),
                               !.vel_x = Mul(sim.vel_x, -RESTITUTION)]
              ELSE sim
        s2 == IF s1.x + U(BALL_RADIUS) > U(WINDOW_WIDTH) - U(BORDER_THICKNESS)
              THEN [s1 EXCEPT !.x = U(WINDOW_WIDTH) - U(BORDER_THICKNESS)
                                        - U(BALL_RADIUS),
                              !.vel_x = Mul(s1.vel_x, -RESTITUTION)]
              ELSE s1
        s3 == IF s2.y - U(BALL_RADIUS) < U(BORDER_THICKNESS)
              THEN [s2 EXCEPT !.y = U(BORDER_THICKNESS) + U(BALL_RADIUS),
                              !.vel_y = Mul(s2.vel_y, -RESTITUTION)]
              ELSE s2
    IN  IF s3.y + U(BALL_RADIUS) > U(WINDOW_HEIGHT) - U(BORDER_THICKNESS)
        THEN [s3 EXCEPT !.y = U(WINDOW_HEIGHT) - U(BORDER_THICKNESS)
                                  - U(BALL_RADIUS),
                        !.vel_y = Mul(s3.vel_y, -RESTITUTION)]
        ELSE s3

\* predict_trajectory(): the body of the loop up to points.append, lines
\* 733-776
predict_step(sim, obstacles) ==
    CHOOSE r \in
        { predict_obstacles(s2, obstacles, 1) :
            s2 \in { predict_border(s1) : s1 \in { predict_move(sim) } } } :
        TRUE

\* predict_trajectory(): one iteration of the loop, lines 733-782, on
\* st = [sim, points, steps, done]: done is set by the break
predict_iteration(st, obstacles) ==
    CHOOSE r \in
        { [sim |-> next,
           points |-> Append(st.points, <<next.x, next.y>>),
           steps |-> st.steps + 1,
           done |-> Abs(next.vel_x) < STOP_SPEED /\ Abs(next.vel_y) < STOP_SPEED] :
            next \in { predict_step(st.sim, obstacles) } } :
        TRUE

\* predict_trajectory(): k iterations of the loop from st, or fewer if the
\* break ends it (two halves, one after the other)
RECURSIVE predict_loop(_, _, _)
predict_loop(st, k, obstacles) ==
    IF k = 0 \/ st.done THEN st
    ELSE IF k = 1 THEN predict_iteration(st, obstacles)
    ELSE CHOOSE r \in
            { predict_loop(mid, k - k \div 2, obstacles) :
                mid \in { predict_loop(st, k \div 2, obstacles) } } :
            TRUE

\* predict_trajectory(): the state before the loop, lines 724-730
predict_start(g, angle_value, power_value) ==
    LET speed == RoundDiv(power_value * LAUNCH_SPEED, MAX_POWER)
    IN  [sim |-> [x |-> g.ball.x, y |-> g.ball.y,
                  vel_x |-> Mul(speed, cos_deg(angle_value)),
                  vel_y |-> -Mul(speed, sin_deg(angle_value))],
         points |-> << <<g.ball.x, g.ball.y>> >>,
         steps |-> 0,
         done |-> FALSE]

predict_trajectory_one_more_step(g, angle_value, power_value) ==
    predict_loop(predict_start(g, angle_value, power_value), PREDICT_STEPS + 1,
                 get_all_obstacles(course_walls[g.current_level_obj],
                                   g.platforms[g.current_level_obj]))

predict_trajectory_without_start_point(g, angle_value, power_value) ==
    predict_loop([predict_start(g, angle_value, power_value)
                    EXCEPT !.points = << >>],
                 PREDICT_STEPS,
                 get_all_obstacles(course_walls[g.current_level_obj],
                                   g.platforms[g.current_level_obj]))

\* MiniGolfGame.predict_trajectory with the sliders at angle_value and
\* power_value; the path returned is the field points of the result, and
\* steps counts the iterations of the loop
predict_trajectory(g, angle_value, power_value) ==
    predict_loop(predict_start(g, angle_value, power_value), PREDICT_STEPS,
                 get_all_obstacles(course_walls[g.current_level_obj],
                                   g.platforms[g.current_level_obj]))

(***************************************************************************)
(* State                                                                   *)
(***************************************************************************)
VARIABLES
    ball,               \* MiniGolfGame.ball
    platforms,          \* levels[i].moving_platforms, i in 1..TOTAL_LEVELS
    repulsors,          \* levels[i].repulsors
    current_level,
    current_level_obj,  \* the index i of the Level current_level_obj refers to
    timer_seconds,
    timer_counter,      \* in ms
    game_over,
    game_won,
    game_paused,
    angle_slider,       \* angle_slider.value, in degrees
    power_slider,       \* power_slider.value, fixed-point
    hole_sound_plays,   \* calls of hole_sound.play()
    step_log,           \* the steps of the last running update()
    points,             \* the path last returned by predict_trajectory
    sim_steps,          \* the loop iterations predict_trajectory ran for it
    unit,               \* the handler call of a single-call run
    phase,              \* which run this is, and where it stands
    ticks,              \* running update() calls so far
    clicks              \* launch-button clicks so far

vars ==
    <<ball, platforms, repulsors, current_level, current_level_obj,
      timer_seconds, timer_counter, game_over, game_won, game_paused,
      angle_slider, power_slider, hole_sound_plays, step_log, points,
      sim_steps, unit, phase, ticks, clicks>>

\* the bounds of the model: running ticks and launch-button clicks explored
MaxTicks == 8
MaxClicks == 2

Game ==
    [ball |-> ball, platforms |-> platforms, repulsors |-> repulsors,
     current_level |-> current_level, current_level_obj |-> current_level_obj,
     timer_seconds |-> timer_seconds, timer_counter |-> timer_counter,
     game_over |-> game_over, game_won |-> game_won,
     game_paused |-> game_paused, hole_sound_plays |-> hole_sound_plays,
     step_log |-> step_log]

SetGame(g) ==
    /\ ball' = g.ball
    /\ platforms' = g.platforms
    /\ repulsors' = g.repulsors
    /\ current_level' = g.current_level
    /\ current_level_obj' = g.current_level_obj
    /\ timer_seconds' = g.timer_seconds
    /\ timer_counter' = g.timer_counter
    /\ game_over' = g.game_over
    /\ game_won' = g.game_won
    /\ game_paused' = g.game_paused
    /\ hole_sound_plays' = g.hole_sound_plays
    /\ step_log' = g.step_log

NoCall == [op |-> "none", pre |-> Ball(0, 0, 0), rect |-> Rect(0, 0, 0, 0),
           side |-> "None", mid |-> Ball(0, 0, 0), side2 |-> "None",
           rep |-> Repulsor(0, 0, 0, 0, 0), level |-> 0, hit |-> FALSE,
           angle |-> 0, power |-> 0]

(***************************************************************************)
(* The states a shot starts from.  The first is the state __init__ leaves: *)
(* level 1, the ball on the start position, 100 seconds on the timer.  The *)
(* others are states of later play: a level k reached by completing the    *)
(* levels before it, part of the time used, the ball at rest where an      *)
(* earlier shot was stopped (on the start position, on the left border     *)
(* clamp, short of the hole, next to a platform or a repulsor).            *)
(***************************************************************************)
\* <<current_level, ball x, ball y, timer_seconds, timer_counter, sample>>
StartStates ==
    { <<1, START_X, START_Y, TIMER_START, 0, 1>>,
      <<1, 40, 300, 60, 0, 1>>,
      <<1, 585, 400, 60, 0, 1>>,
      <<1, 585, 400, 0, 986, 1>>,
      <<2, 190, 180, 60, 0, 1>>,
      <<3, START_X, START_Y, 60, 0, 1>>,
      <<4, 185, 200, 60, 0, 1>>,
      <<4, 500, 245, 60, 0, 1>>,
      <<5, START_X, START_Y, 60, 0, 1>>,
      <<5, 685, 500, 60, 0, 1>>,
      <<5, 685, 500, 60, 0, 2>> }

Powers == { 2500, 150000 }

PlayAngles == { 0, 90, 180, 270 }

\* the game in the start state st
StartGame(st) ==
    /\ ball = Ball(U(st[2]), U(st[3]), U(BALL_RADIUS))
    /\ platforms = setup_moving_platforms(st[6])
    /\ repulsors = setup_repulsors(st[6])
    /\ current_level = st[1]
    /\ current_level_obj = st[1]
    /\ timer_seconds = st[4]
    /\ timer_counter = st[5]
    /\ game_over = FALSE
    /\ game_won = FALSE
    /\ game_paused = FALSE
    /\ angle_slider = 0
    /\ power_slider = 0
    /\ hole_sound_plays = 0
    /\ step_log = << >>

Init ==
    \E st \in StartStates :
        /\ StartGame(st)
        /\ points = << >>
        /\ sim_steps = 0
        /\ unit = NoCall
        /\ phase = "play"
        /\ ticks = 0
        /\ clicks = 0

(***************************************************************************)
(* Actions: one frame of run() is handle_events() and then update(dt).     *)
(***************************************************************************)
\* run(): update(dt)
Tick ==
    /\ phase = "play"
    /\ ticks < MaxTicks \/ ball.teleporting
    /\ \E g \in {MiniGolfGame_update(Game)} : SetGame(g)
    /\ ticks' = IF game_paused \/ game_over \/ game_won \/ ticks >= MaxTicks
                THEN ticks ELSE ticks + 1
    /\ UNCHANGED <<angle_slider, power_slider, points, sim_steps, unit, phase,
                   clicks>>

\* handle_events(): KEYDOWN K_ESCAPE
EscapeKey ==
    /\ phase = "play"
    /\ game_paused' = ~game_paused
    /\ UNCHANGED <<ball, platforms, repulsors, current_level, current_level_obj,
                   timer_seconds, timer_counter, game_over, game_won,
                   angle_slider, power_slider, hole_sound_plays, step_log,
                   points, sim_steps, unit, phase, ticks, clicks>>

\* handle_events(): MOUSEBUTTONDOWN on the play-again button
PlayAgainClick ==
    /\ phase = "play"
    /\ game_over \/ game_won
    /\ \E g \in {reset_game(Game)} : SetGame(g)
    /\ UNCHANGED <<angle_slider, power_slider, points, sim_steps, unit, phase,
                   ticks, clicks>>

\* handle_events(): MOUSEBUTTONDOWN on the resume button
ResumeClick ==
    /\ phase = "play"
    /\ ~(game_over \/ game_won)
    /\ game_paused
    /\ game_paused' = FALSE
    /\ UNCHANGED <<ball, platforms, repulsors, current_level, current_level_obj,
                   timer_seconds, timer_counter, game_over, game_won,
                   angle_slider, power_slider, hole_sound_plays, step_log,
                   points, sim_steps, unit, phase, ticks, clicks>>

\* handle_events(): MOUSEBUTTONDOWN on the launch button, lines 902-906; the
\* slider drags before the click are folded into it
LaunchClick ==
    /\ phase = "play"
    /\ ~(game_over \/ game_won)
    /\ ~game_paused
    /\ clicks < MaxClicks
    /\ clicks' = clicks + 1
    /\ IF ~ball.is_moving
       THEN \E a \in PlayAngles, p \in Powers :
               /\ angle_slider' = a
               /\ power_slider' = p
               /\ ball' = launch(ball, a, p, MAX_POWER)
       ELSE /\ ball' = stop(ball)
            /\ UNCHANGED <<angle_slider, power_slider>>
    /\ UNCHANGED <<platforms, repulsors, current_level, current_level_obj,
                   timer_seconds, timer_counter, game_over, game_won,
                   game_paused, hole_sound_plays, step_log, points, sim_steps,
                   unit, phase, ticks>>

Next == Tick \/ EscapeKey \/ PlayAgainClick \/ ResumeClick \/ LaunchClick

Spec == Init /\ [][Next]_vars

\* run() calls update() in every frame: a running tick that stays possible is
\* taken
LiveSpec == Spec /\ SF_vars(Tick)

(***************************************************************************)
(* Level 5 from the state reset_level leaves on entering it: the ball on   *)
(* the start position, the obstacles where setup drew them.  The draw is   *)
(* one that puts a repulsor next to the start position.                    *)
(***************************************************************************)
\* the random.uniform draws of this level 5
CrowdedSample == 866

Level5States ==
    { <<5, START_X, START_Y, 60, 0, CrowdedSample>>,
      <<5, START_X, START_Y, 0, 986, CrowdedSample>> }

Level5Init ==
    \E st \in Level5States :
        /\ StartGame(st)
        /\ points = << >>
        /\ sim_steps = 0
        /\ unit = NoCall
        /\ phase = "play"
        /\ ticks = 0
        /\ clicks = 0

Level5Spec == Level5Init /\ [][Next]_vars

(***************************************************************************)
(* Level 1 with the ball next to the capture radius of the hole: at the    *)
(* end of a weak shot from (610.3, 400) toward the hole, eleven ticks      *)
(* after the launch, and at rest where a stop click left it.               *)
(***************************************************************************)
\* <<ball x, ball y, velocity_x, timer_seconds, timer_counter>>, x, y and
\* velocity_x in 1/SCALE
HoleStates ==
    { <<609080, U(400), -100, 60, 0>>, <<609080, U(400), -100, 0, 986>>,
      <<609500, U(400), 0, 60, 0>> }

HoleInit ==
    \E st \in HoleStates :
        /\ ball = [Ball(st[1], st[2], U(BALL_RADIUS)) EXCEPT
                     !.velocity_x = st[3], !.is_moving = st[3] # 0]
        /\ platforms = setup_moving_platforms(1)
        /\ repulsors = setup_repulsors(1)
        /\ current_level = 1
        /\ current_level_obj = 1
        /\ timer_seconds = st[4]
        /\ timer_counter = st[5]
        /\ game_over = FALSE
        /\ game_won = FALSE
        /\ game_paused = FALSE
        /\ angle_slider = 180
        /\ power_slider = 2500
        /\ hole_sound_plays = 0
        /\ step_log = << >>
        /\ points = << >>
        /\ sim_steps = 0
        /\ unit = NoCall
        /\ phase = "play"
        /\ ticks = 0
        /\ clicks = 0

HoleSpec == HoleInit /\ [][Next]_vars

(***************************************************************************)
(* The last second of the timer: levels 1 and 5 with the ball at rest next *)
(* to the hole, no second left on the timer and a part of the last second  *)
(* gone.                                                                   *)
(***************************************************************************)
ExpiryStates ==
    { <<lvl[1], lvl[2], lvl[3], 0, c, 1>> :
        lvl \in { <<1, 585, 400>>, <<5, 685, 500>> },
        c \in { 864, 932 } }

ExpiryInit ==
    \E st \in ExpiryStates :
        /\ StartGame(st)
        /\ points = << >>
        /\ sim_steps = 0
        /\ unit = NoCall
        /\ phase = "play"
        /\ ticks = 0
        /\ clicks = 0

ExpirySpec == ExpiryInit /\ [][Next]_vars

(***************************************************************************)
(* Aiming.  While the ball is at rest every frame's draw() computes the    *)
(* preview path from the sliders; the launch click of the next frame and   *)
(* the update() calls after it move the live ball.  In phase "aim" the     *)
(* sliders are dragged and frames pass, "previewed" is the frame whose     *)
(* draw() computed points, and "flying" counts in ticks the update() calls *)
(* since the launch.                                                       *)
(***************************************************************************)
\* the frames explored before the preview and after the launch
MaxFlight == 4

\* <<current_level, ball x, ball y, timer_seconds, timer_counter, sample>>:
\* the start position of levels 1, 2 and 5, a ball at rest next to a wall of
\* level 1 and on the border clamp, and a ball at rest on level 2 in the
\* path of the first platform
AimStates ==
    { <<1, START_X, START_Y, TIMER_START, 0, 1>>,
      <<1, 175, 300, 60, 0, 1>>,
      <<1, 40, 560, 60, 0, 1>>,
      <<2, START_X, START_Y, 60, 0, 1>>,
      <<2, 190, 222, 60, 0, 1>>,
      <<5, START_X, START_Y, 60, 0, 1>> }

AimPowers == { 0, 150000, 300000 }

PredictInit ==
    \E st \in AimStates :
        /\ StartGame(st)
        /\ points = << >>
        /\ sim_steps = 0
        /\ unit = NoCall
        /\ phase = "aim"
        /\ ticks = 0
        /\ clicks = 0

\* handle_events(): MOUSEMOTION while a slider is dragged
DragSliders ==
    /\ phase = "aim"
    /\ \E a \in Angles, p \in AimPowers :
          /\ <<a, p>> # <<angle_slider, power_slider>>
          /\ angle_slider' = a
          /\ power_slider' = p
    /\ UNCHANGED <<ball, platforms, repulsors, current_level, current_level_obj,
                   timer_seconds, timer_counter, game_over, game_won,
                   game_paused, hole_sound_plays, step_log, points, sim_steps,
                   unit, phase, ticks, clicks>>

\* draw(): draw_aim_preview() calls predict_trajectory(), lines 990-991, 787
Preview ==
    /\ phase = "aim"
    /\ ~ball.is_moving /\ ~ball.teleporting
    /\ \E path \in {predict_trajectory(Game, angle_slider, power_slider)} :
          /\ points' = path.points
          /\ sim_steps' = path.steps
    /\ phase' = "previewed"
    /\ UNCHANGED <<ball, platforms, repulsors, current_level, current_level_obj,
                   timer_seconds, timer_counter, game_over, game_won,
                   game_paused, angle_slider, power_slider, hole_sound_plays,
                   step_log, unit, ticks, clicks>>

\* handle_events(): the launch click of the frame after the preview
AimLaunch ==
    /\ phase = "previewed"
    /\ ball' = launch(ball, angle_slider, power_slider, MAX_POWER)
    /\ phase' = "flying"
    /\ ticks' = 0
    /\ clicks' = clicks + 1
    /\ UNCHANGED <<platforms, repulsors, current_level, current_level_obj,
                   timer_seconds, timer_counter, game_over, game_won,
                   game_paused, angle_slider, power_slider, hole_sound_plays,
                   step_log, points, sim_steps, unit>>

\* run(): update(dt), before the preview or after the launch
AimTick ==
    /\ phase \in {"aim", "flying"}
    /\ ticks < MaxFlight
    /\ \E g \in {MiniGolfGame_update(Game)} : SetGame(g)
    /\ ticks' = ticks + 1
    /\ UNCHANGED <<angle_slider, power_slider, points, sim_steps, unit, phase,
                   clicks>>

PredictNext == DragSliders \/ Preview \/ AimLaunch \/ AimTick

PredictSpec == PredictInit /\ [][PredictNext]_vars

(***************************************************************************)
(* Single calls of the two rectangle handlers on a ball in any position.   *)
(* unit records the call: the handler, the ball before it, the rectangle   *)
(* passed and the value returned; ball is the ball after the call.         *)
(***************************************************************************)
\* ball centres: outside the arena on either side, on the clamp positions,
\* inside, and around the rectangles below
UnitXs == { -5000, 35000, 40000, 45000, 60000, 75000, 100000, 400000, 760000,
            765000, 900000, 1050000 }

UnitYs == { -5000, 35000, 40000, 50000, 60000, 75000, 100000, 300000, 560000,
            565000, 700000 }

UnitVelocities == { <<0, 0>>, <<5000, -3000>>, <<-125, 4000>> }

UnitRadii == { U(BALL_RADIUS), U(5) }

\* the rectangle of the spec's example, a wall of level 1, a rectangle on
\* the corner of the arena, and a platform-sized rectangle at a fractional x
\* whose right edge plus a radius is a sum that rounds
UnitRects == { Rect(50, 50, 20, 20), Rect(150, 100, 500, 15),
               Rect(30, 30, 40, 60),
               [x |-> 985001, y |-> U(50), width |-> U(60), height |-> U(10)] }

UnitInit ==
    /\ StartGame(<<1, START_X, START_Y, TIMER_START, 0, 1>>)
    /\ points = << >>
    /\ sim_steps = 0
    /\ phase = "unit"
    /\ ticks = 0
    /\ clicks = 0
    /\ \E x \in UnitXs, y \in UnitYs, v \in UnitVelocities, r \in UnitRadii :
          unit = [NoCall EXCEPT
                    !.pre = [Ball(x, y, r) EXCEPT !.velocity_x = v[1],
                                                  !.velocity_y = v[2],
                                                  !.is_moving = TRUE]]

\* update(): ball.handle_border_collision(...), lines 937-941
CallBorder ==
    /\ phase = "unit"
    /\ ball' = handle_border_collision(unit.pre, U(BORDER_THICKNESS),
                                       U(WINDOW_WIDTH), U(WINDOW_HEIGHT))
    /\ unit' = [unit EXCEPT !.op = "border"]
    /\ phase' = "called"
    /\ UNCHANGED <<platforms, repulsors, current_level, current_level_obj,
                   timer_seconds, timer_counter, game_over, game_won,
                   game_paused, angle_slider, power_slider, hole_sound_plays,
                   step_log, points, sim_steps, ticks, clicks>>

\* update(): ball.handle_obstacle_collision(wall.get_collision_rect()), line
\* 945
CallObstacle ==
    /\ phase = "unit"
    /\ \E o \in UnitRects :
         \E res \in {handle_obstacle_collision(unit.pre, get_collision_rect(o))} :
            /\ ball' = res.b
            /\ unit' = [unit EXCEPT !.op = "obstacle", !.rect = o,
                                    !.side = res.side]
    /\ phase' = "called"
    /\ UNCHANGED <<platforms, repulsors, current_level, current_level_obj,
                   timer_seconds, timer_counter, game_over, game_won,
                   game_paused, angle_slider, power_slider, hole_sound_plays,
                   step_log, points, sim_steps, ticks, clicks>>

\* a second handle_obstacle_collision call on the same rectangle, right
\* after the first: unit.mid is the ball between the calls, unit.side2 the
\* value the second call returns
CallObstacleAgain ==
    /\ phase = "called"
    /\ unit.op = "obstacle"
    /\ \E res \in {handle_obstacle_collision(ball, get_collision_rect(unit.rect))} :
          /\ ball' = res.b
          /\ unit' = [unit EXCEPT !.op = "obstacle twice", !.mid = ball,
                                  !.side2 = res.side]
    /\ phase' = "called twice"
    /\ UNCHANGED <<platforms, repulsors, current_level, current_level_obj,
                   timer_seconds, timer_counter, game_over, game_won,
                   game_paused, angle_slider, power_slider, hole_sound_plays,
                   step_log, points, sim_steps, ticks, clicks>>

\* two repulsors of the sizes setup_repulsors gives them: the ball positions
\* of UnitXs and UnitYs put the ball on a repulsor's centre, inside its reach
\* on every side, and out of its reach
UnitRepulsors == { Repulsor(U(60), U(60), 15, 0, 0),
                   Repulsor(U(400), U(300), 20, 0, 0) }

\* update(): ball.handle_repulsor_collision(repulsor, self.current_level),
\* line 953, for each level number the game has
CallRepulsor ==
    /\ phase = "unit"
    /\ \E rep \in UnitRepulsors, lvl \in 1..TOTAL_LEVELS :
         \E res \in {handle_repulsor_collision(unit.pre, rep, lvl)} :
            /\ ball' = res.b
            /\ unit' = [unit EXCEPT !.op = "repulsor", !.rep = rep,
                                    !.level = lvl, !.hit = res.hit]
    /\ phase' = "called"
    /\ UNCHANGED <<platforms, repulsors, current_level, current_level_obj,
                   timer_seconds, timer_counter, game_over, game_won,
                   game_paused, angle_slider, power_slider, hole_sound_plays,
                   step_log, points, sim_steps, ticks, clicks>>

\* the power slider's ends, its middle and a weak shot
UnitPowers == { 0, 2500, 150000, U(MAX_POWER) }

\* handle_events(): ball.launch(angle, power, MAX_POWER) on the ball at rest,
\* line 904
CallLaunch ==
    /\ phase = "unit"
    /\ \E a \in Angles, p \in UnitPowers :
          /\ ball' = launch(stop(unit.pre), a, p, MAX_POWER)
          /\ unit' = [unit EXCEPT !.op = "launch", !.angle = a, !.power = p]
    /\ phase' = "called"
    /\ UNCHANGED <<platforms, repulsors, current_level, current_level_obj,
                   timer_seconds, timer_counter, game_over, game_won,
                   game_paused, angle_slider, power_slider, hole_sound_plays,
                   step_log, points, sim_steps, ticks, clicks>>

\* update(): ball.update(dt) on the launched ball, line 933; unit.mid is the
\* ball the launch left
CallUpdate ==
    /\ phase = "called"
    /\ unit.op = "launch"
    /\ ball' = Ball_update(ball)
    /\ unit' = [unit EXCEPT !.op = "launch and update", !.mid = ball]
    /\ phase' = "called twice"
    /\ UNCHANGED <<platforms, repulsors, current_level, current_level_obj,
                   timer_seconds, timer_counter, game_over, game_won,
                   game_paused, angle_slider, power_slider, hole_sound_plays,
                   step_log, points, sim_steps, ticks, clicks>>

UnitNext ==
    \/ CallBorder
    \/ CallObstacle
    \/ CallObstacleAgain
    \/ CallRepulsor
    \/ CallLaunch
    \/ CallUpdate

UnitSpec == UnitInit /\ [][UnitNext]_vars

(***************************************************************************)
(* The obstacles on their own: Level.update, tick after tick, on the       *)
(* obstacles of one course.  The courses are those of levels 2 to 5 and a  *)
(* course of obstacles with small amplitudes, speeds just under the        *)
(* amplitude, and drifting obstacles that start on the borders.            *)
(***************************************************************************)
MaxUpdates == 500

TestPlatforms ==
    << Vertical(100, 100, 80, 15, 2, 1999, 1),
       Vertical(200, 100, 80, 15, 5, 3000, -1),
       Horizontal(300, 100, 80, 15, 3, 1000, 1),
       Horizontal(400, 100, 80, 15, 1, 999, -1),
       Horizontal(500, 100, 80, 15, 4, 1, 1),
       Random(U(BORDER_THICKNESS), U(BORDER_THICKNESS), 60, 10, -2000, -1),
       Random(U(WINDOW_WIDTH - BORDER_THICKNESS - 60),
              U(WINDOW_HEIGHT - BORDER_THICKNESS - 10), 60, 10, 2000, 1999),
       Random(U(31), U(300), 60, 10, -700, 0) >>

TestRepulsors ==
    << Repulsor(U(BORDER_THICKNESS + 15), U(BORDER_THICKNESS + 15), 15, -2000, -1),
       Repulsor(U(WINDOW_WIDTH - BORDER_THICKNESS - 15),
                U(WINDOW_HEIGHT - BORDER_THICKNESS - 15), 15, 1999, 2000),
       Repulsor(U(46), U(300), 15, -700, 300) >>

ObstacleCourses ==
    { [platforms |-> setup_moving_platforms(s)[l],
       repulsors |-> setup_repulsors(s)[l]] : l \in 2..TOTAL_LEVELS, s \in Samples }
    \cup { [platforms |-> TestPlatforms, repulsors |-> TestRepulsors] }

ObstacleInit ==
    /\ ball = Ball(U(START_X), U(START_Y), U(BALL_RADIUS))
    /\ \E c \in ObstacleCourses :
          /\ platforms = << c.platforms >>
          /\ repulsors = << c.repulsors >>
    /\ current_level = 1
    /\ current_level_obj = 1
    /\ timer_seconds = TIMER_START
    /\ timer_counter = 0
    /\ game_over = FALSE
    /\ game_won = FALSE
    /\ game_paused = FALSE
    /\ angle_slider = 0
    /\ power_slider = 0
    /\ hole_sound_plays = 0
    /\ step_log = << >>
    /\ points = << >>
    /\ sim_steps = 0
    /\ unit = NoCall
    /\ phase = "obstacles"
    /\ ticks = 0
    /\ clicks = 0

\* update(): self.current_level_obj.update(dt), line 930
LevelUpdate ==
    /\ phase = "obstacles"
    /\ ticks < MaxUpdates
    /\ \E g \in {update_level(Game)} :
          /\ platforms' = g.platforms
          /\ repulsors' = g.repulsors
    /\ ticks' = ticks + 1
    /\ UNCHANGED <<ball, current_level, current_level_obj, timer_seconds,
                   timer_counter, game_over, game_won, game_paused,
                   angle_slider, power_slider, hole_sound_plays, step_log,
                   points, sim_steps, unit, phase, clicks>>

ObstacleNext == LevelUpdate

ObstacleSpec == ObstacleInit /\ [][ObstacleNext]_vars

(***************************************************************************)
(* Properties                                                              *)
(***************************************************************************)
Running == ~(game_paused \/ game_over \/ game_won)

Slow(b) == Abs(b.velocity_x) < STOP_SPEED /\ Abs(b.velocity_y) < STOP_SPEED

Stopped(b) == ~b.is_moving /\ b.velocity_x = 0 /\ b.velocity_y = 0

LogSteps(name) == {i \in DOMAIN step_log : step_log[i].step = name}

\* C1: in every reachable state of play, a ball whose is_moving flag is false
\* has velocity_x = 0 and velocity_y = 0.
C1_IdleBallHasZeroVelocity ==
    ~ball.is_moving => ball.velocity_x = 0 /\ ball.velocity_y = 0

\* the last running tick integrated a moving ball, which has since been
\* stopped (by a click, by the threshold or by the completed teleport)
C1_Witness ==
    /\ ~ball.is_moving
    /\ \E i \in LogSteps("integrate") : step_log[i].b.is_moving

MotionState(b) ==
    IF b.teleporting THEN "Teleporting"
    ELSE IF b.is_moving THEN "Moving" ELSE "Idle"

\* C2: the motion state changes only along Idle->Moving, Moving->Idle,
\* Moving->Teleporting and Teleporting->Idle; while the ball is teleporting
\* no launch or stop takes effect (is_moving and the direction of the velocity
\* stay as they are), and teleporting ends only by completion or by a reset.
C2_MotionStateMachine ==
    [][ /\ MotionState(ball') # MotionState(ball) =>
              <<MotionState(ball), MotionState(ball')>> \in
                  { <<"Idle", "Moving">>, <<"Moving", "Idle">>,
                    <<"Moving", "Teleporting">>, <<"Teleporting", "Idle">> }
        /\ ball.teleporting /\ ball'.teleporting =>
              ball'.is_moving = ball.is_moving
        /\ ball.teleporting /\ ~ball'.teleporting =>
              \/ hole_sound_plays' = hole_sound_plays + 1
              \/ ball' = reset_level(Game).ball
      ]_vars

Rank(name) ==
    CASE name = "level" -> 1 [] name = "integrate" -> 2 [] name = "border" -> 3
      [] name = "wall" -> 4 [] name = "platform" -> 5 [] name = "repulsor" -> 6
      [] name = "hole" -> 7 [] name = "teleport" -> 8

\* C3: the steps of a running tick run in the order obstacle updates, ball
\* integration, border, each wall in course order, each platform in course
\* order, each repulsor in course order, hole check; when the collision block
\* runs, every wall, platform and repulsor of the course is visited once, and
\* the hole check sees the position the last collision step left and captures
\* exactly when that position is nearer than 9 to the hole.
C3_StepOrder ==
    step_log # << >> =>
        LET n == Len(step_log)
            lv == step_log[1].idx
            hole == hole_positions[lv]
        IN  /\ n >= 2
            /\ step_log[1].step = "level"
            /\ step_log[2].step = "integrate"
            /\ \A i \in 1..(n - 1) :
                  LET e == step_log[i]
                      f == step_log[i + 1]
                  IN  \/ /\ Rank(e.step) < Rank(f.step)
                         /\ f.step \in {"wall", "platform", "repulsor"} => f.idx = 1
                      \/ /\ e.step = f.step
                         /\ e.step \in {"wall", "platform", "repulsor"}
                         /\ f.idx = e.idx + 1
            /\ LogSteps("border") # {} =>
                  /\ Cardinality(LogSteps("border")) = 1
                  /\ Cardinality(LogSteps("hole")) = 1
                  /\ Cardinality(LogSteps("wall")) = Len(course_walls[lv])
                  /\ Cardinality(LogSteps("platform")) = Len(platforms[lv])
                  /\ Cardinality(LogSteps("repulsor")) = Len(repulsors[lv])
            /\ \A i \in LogSteps("hole") :
                  /\ step_log[i].b.x = step_log[i - 1].b.x
                  /\ step_log[i].b.y = step_log[i - 1].b.y
                  /\ step_log[i].b.teleporting =
                        HypotLess(hole[1] - step_log[i - 1].b.x,
                                  hole[2] - step_log[i - 1].b.y, U(9))

\* a tick on a course with walls, platforms and repulsors in which a collision
\* step corrected the ball
C3_Witness ==
    /\ LogSteps("wall") # {}
    /\ LogSteps("platform") # {}
    /\ LogSteps("repulsor") # {}
    /\ LogSteps("hole") # {}
    /\ \E i \in LogSteps("repulsor") : step_log[i].b # step_log[i - 1].b

\* the teleport calls of the last running tick that returned True
Completions == {i \in LogSteps("teleport") : step_log[i].idx = 1}

\* C4: a teleporting ball whose ticks keep running (not paused for good, no
\* game over) reaches the end of the teleport; the call that ends it leaves
\* the ball exactly on the hole, stopped, with zero velocity; and completion
\* is signalled once per capture: hole_sound.play() is called once, by a tick
\* that found the ball teleporting or captured it, that clears teleporting
\* and that advances the level or sets game_won.
C4_TeleportCompletes ==
    /\ [](\A i \in Completions :
            /\ step_log[i].b.x = hole_positions[step_log[1].idx][1]
            /\ step_log[i].b.y = hole_positions[step_log[1].idx][2]
            /\ Stopped(step_log[i].b))
    /\ [][ /\ hole_sound_plays' # hole_sound_plays =>
                 /\ hole_sound_plays' = hole_sound_plays + 1
                 /\ ball.teleporting \/ ball.is_moving
                 /\ ~ball'.teleporting
                 /\ Cardinality({i \in DOMAIN step_log' :
                                   step_log'[i].step = "teleport"}) = 1
                 /\ step_log'[Len(step_log')].step = "teleport"
                 /\ step_log'[Len(step_log')].idx = 1
                 /\ IF current_level = TOTAL_LEVELS
                    THEN game_won' /\ current_level' = current_level
                    ELSE ~game_won' /\ current_level' = current_level + 1
           /\ ball.teleporting /\ ~ball'.teleporting =>
                 \/ hole_sound_plays' = hole_sound_plays + 1
                 \/ game_over \/ game_won
         ]_vars
    /\ ([]<>(~game_paused)) =>
          (ball.teleporting ~> (~ball.teleporting \/ game_over))

\* a teleport has completed in the last running tick
C4_Witness ==
    /\ hole_sound_plays > 0
    /\ Completions # {}
    /\ ~ball.teleporting

\* the level has no moving platform and no repulsor
StaticCourse ==
    /\ platforms[current_level_obj] = << >>
    /\ repulsors[current_level_obj] = << >>

\* the ball launched after the preview has not been captured by the hole
NotCaptured == ~ball.teleporting /\ hole_sound_plays = 0

\* C5: on a course without moving platforms and repulsors, and as long as the
\* hole has not captured the ball, the ball's position k ticks after the
\* launch (k >= 1, up to the end of the path) is the k-th point after the
\* start point of the path predicted from the same angle and power.
C5_PredictorMatchesLive ==
    (/\ phase = "flying"
     /\ StaticCourse
     /\ NotCaptured
     /\ ticks >= 1
     /\ ticks < Len(points))
        => points[ticks + 1] = <<ball.x, ball.y>>

\* C6 as claimed: the predictor runs at most 200 simulation steps and returns
\* at most 200 points.
C6_AtMost200Points ==
    phase \in {"previewed", "flying"} =>
        sim_steps <= PREDICT_STEPS /\ Len(points) <= PREDICT_STEPS

\* C6 as amended: the predictor runs at most 200 simulation steps and returns
\* the start point followed by one point per step, at most 201 points.
C6_AtMost200Steps ==
    phase \in {"previewed", "flying"} =>
        /\ sim_steps >= 1
        /\ sim_steps <= PREDICT_STEPS
        /\ Len(points) = sim_steps + 1
        /\ Len(points) <= PREDICT_STEPS + 1

\* a preview that ran all 200 steps
C6_Witness ==
    phase = "previewed" /\ sim_steps = PREDICT_STEPS /\ Len(points) > PREDICT_STEPS

\* the resting ball touches neither the border nor an obstacle of its level
BallClear ==
    /\ ball.x - U(BALL_RADIUS) >= U(BORDER_THICKNESS)
    /\ ball.x + U(BALL_RADIUS) <= U(WINDOW_WIDTH) - U(BORDER_THICKNESS)
    /\ ball.y - U(BALL_RADIUS) >= U(BORDER_THICKNESS)
    /\ ball.y + U(BALL_RADIUS) <= U(WINDOW_HEIGHT) - U(BORDER_THICKNESS)
    /\ \A o \in {course_walls[current_level_obj][i] :
                    i \in DOMAIN course_walls[current_level_obj]}
             \cup {platforms[current_level_obj][i] :
                    i \in DOMAIN platforms[current_level_obj]} :
          \/ ball.x + U(BALL_RADIUS) <= o.x
          \/ ball.x - U(BALL_RADIUS) >= o.x + o.width
          \/ ball.y + U(BALL_RADIUS) <= o.y
          \/ ball.y - U(BALL_RADIUS) >= o.y + o.height

\* C7 as claimed: with zero power the predicted path has length 1 and holds
\* only the start point.
C7_ZeroPowerPathOfLengthOne ==
    phase = "previewed" /\ power_slider = 0 =>
        points = << <<ball.x, ball.y>> >>

\* C7 as amended: with zero power the predicted path has length 2: the start
\* point and the point after one step at zero velocity, which is the start
\* point again when the ball touches neither the border nor an obstacle.
C7_ZeroPowerPathOfLengthTwo ==
    phase = "previewed" /\ power_slider = 0 =>
        /\ sim_steps = 1
        /\ Len(points) = 2
        /\ points[1] = <<ball.x, ball.y>>
        /\ BallClear => points[2] = points[1]

\* a zero-power preview of a ball clear of every obstacle
C7_Witness ==
    /\ phase = "previewed"
    /\ power_slider = 0
    /\ BallClear
    /\ Len(points) = 2

\* the collision steps of the last running tick left the velocity that the
\* integration step had left
NoBounce(log) ==
    \A i \in DOMAIN log :
        log[i].step \in {"border", "wall", "platform", "repulsor"} =>
            /\ log[i].b.velocity_x = log[2].b.velocity_x
            /\ log[i].b.velocity_y = log[2].b.velocity_y

\* C8 as claimed: at the end of every running tick that leaves the ball not
\* teleporting, a ball slower than 0.1 on both axes is stopped with zero
\* velocity, bounces of that tick included.
C8_SlowBallStoppedInSameTick ==
    [][ Tick /\ Running /\ ~ball'.teleporting /\ Slow(ball') => Stopped(ball')
      ]_vars

\* C8 as amended: the integration step of every running tick leaves a ball
\* that is not teleporting and slower than 0.1 on both axes stopped with zero
\* velocity, and so does the tick when no border, wall, platform or repulsor
\* bounce changed the velocity after the integration.
C8_SlowBallStoppedByIntegration ==
    [][ Tick /\ Running =>
          /\ ~step_log'[2].b.teleporting /\ Slow(step_log'[2].b) =>
                Stopped(step_log'[2].b)
          /\ ~ball'.teleporting /\ Slow(ball') /\ NoBounce(step_log') =>
                Stopped(ball')
      ]_vars

\* the integration step of the last running tick stopped a moving ball
C8_Witness ==
    /\ Len(step_log) >= 2
    /\ step_log[1].b.is_moving
    /\ ~step_log[1].b.teleporting
    /\ ~step_log[2].b.is_moving
    /\ ~ball.is_moving


\* the range the border leaves a centre in, per axis
BorderLow(b) == U(BORDER_THICKNESS) + b.radius

BorderHighX(b) == U(WINDOW_WIDTH) - U(BORDER_THICKNESS) - b.radius

BorderHighY(b) == U(WINDOW_HEIGHT) - U(BORDER_THICKNESS) - b.radius

\* C9: after one call of handle_border_collision, from any position, x lies in
\* [border_thickness + radius, window_width - border_thickness - radius] and y
\* in [border_thickness + radius, window_height - border_thickness - radius];
\* the velocity of each axis that was out of range is multiplied by -0.8, the
\* velocity of an axis in range is unchanged, and both axes can be corrected
\* by the same call.
C9_BorderPostcondition ==
    unit.op = "border" =>
        /\ ball.x >= BorderLow(unit.pre) /\ ball.x <= BorderHighX(unit.pre)
        /\ ball.y >= BorderLow(unit.pre) /\ ball.y <= BorderHighY(unit.pre)
        /\ ball.velocity_x =
              IF unit.pre.x < BorderLow(unit.pre) \/ unit.pre.x > BorderHighX(unit.pre)
              THEN Mul(unit.pre.velocity_x, -RESTITUTION)
              ELSE unit.pre.velocity_x
        /\ ball.velocity_y =
              IF unit.pre.y < BorderLow(unit.pre) \/ unit.pre.y > BorderHighY(unit.pre)
              THEN Mul(unit.pre.velocity_y, -RESTITUTION)
              ELSE unit.pre.velocity_y

\* a call on a moving ball outside the arena on both axes
C9_Witness ==
    /\ unit.op = "border"
    /\ unit.pre.x < BorderLow(unit.pre)
    /\ unit.pre.y > BorderHighY(unit.pre)
    /\ unit.pre.velocity_x # 0 /\ unit.pre.velocity_y # 0

Sides == <<"left", "right", "top", "bottom">>

\* the four penetration depths of ball b into rectangle o, in the order of
\* Sides
Penetrations(b, o) ==
    << Abs(Fl(Fl(b.x + b.radius) - o.x)),
       Abs(Fl(Fl(b.x - b.radius) - Fl(o.x + o.width))),
       Abs(Fl(Fl(b.y + b.radius) - o.y)),
       Abs(Fl(Fl(b.y - b.radius) - Fl(o.y + o.height))) >>

\* the bounding extents of b and o overlap on both axes
Overlap(b, o) ==
    /\ Fl(b.x + b.radius) > o.x /\ Fl(b.x - b.radius) < Fl(o.x + o.width)
    /\ Fl(b.y + b.radius) > o.y /\ Fl(b.y - b.radius) < Fl(o.y + o.height)

\* the first side, in the order of Sides, whose penetration is minimal
FirstMinimal(pens) ==
    CHOOSE k \in 1..4 :
        /\ \A j \in 1..4 : pens[k] <= pens[j]
        /\ \A j \in 1..(k - 1) : pens[j] > pens[k]

\* C10: on an overlap handle_obstacle_collision returns the first side of
\* left, right, top, bottom whose penetration is minimal, puts the centre just
\* outside that edge, multiplies the velocity component of that axis by -0.8
\* and leaves the other coordinate and component as they were; without an
\* overlap it returns None and leaves the ball as it was; centre (45, 60),
\* radius 10 and rectangle (50, 50, 20, 20) give x = 40 and side left.
C10_ObstacleResolution ==
    unit.op = "obstacle" =>
        LET pre == unit.pre
            o == unit.rect
            side == Sides[FirstMinimal(Penetrations(pre, o))]
        IN  /\ Overlap(pre, o) =>
                 /\ unit.side = side
                 /\ ball.x = CASE side = "left" -> Fl(o.x - pre.radius)
                               [] side = "right" ->
                                    Fl(Fl(o.x + o.width) + pre.radius)
                               [] OTHER -> pre.x
                 /\ ball.y = CASE side = "top" -> Fl(o.y - pre.radius)
                               [] side = "bottom" ->
                                    Fl(Fl(o.y + o.height) + pre.radius)
                               [] OTHER -> pre.y
                 /\ ball.velocity_x = IF side \in {"left", "right"}
                                      THEN Mul(pre.velocity_x, -RESTITUTION)
                                      ELSE pre.velocity_x
                 /\ ball.velocity_y = IF side \in {"top", "bottom"}
                                      THEN Mul(pre.velocity_y, -RESTITUTION)
                                      ELSE pre.velocity_y
                 /\ ball.is_moving = pre.is_moving
                 /\ ball.teleporting = pre.teleporting
            /\ ~Overlap(pre, o) => unit.side = "None" /\ ball = pre
            /\ (/\ pre.x = U(45) /\ pre.y = U(60) /\ pre.radius = U(10)
                /\ o = Rect(50, 50, 20, 20))
                 => ball.x = U(40) /\ unit.side = "left"

\* the call of the example, from the left, on a moving ball
C10_Witness ==
    /\ unit.op = "obstacle"
    /\ unit.pre.x = U(45) /\ unit.pre.y = U(60) /\ unit.pre.radius = U(10)
    /\ unit.rect = Rect(50, 50, 20, 20)
    /\ unit.pre.velocity_x # 0
    /\ unit.side = "left"

\* b and o overlap on the axis of the given side
AxisOverlap(b, o, side) ==
    IF side \in {"left", "right"}
    THEN Fl(b.x + b.radius) > o.x /\ Fl(b.x - b.radius) < Fl(o.x + o.width)
    ELSE Fl(b.y + b.radius) > o.y /\ Fl(b.y - b.radius) < Fl(o.y + o.height)

\* C11: after a call that resolved a collision the ball no longer overlaps
\* the rectangle on the resolved axis, and a second call with the same
\* rectangle, right after, returns None and leaves the ball as it was.
C11_ResolvedBallIsClear ==
    unit.op = "obstacle twice" /\ unit.side # "None" =>
        /\ ~AxisOverlap(unit.mid, unit.rect, unit.side)
        /\ unit.side2 = "None"
        /\ ball = unit.mid

\* the contact test of handle_repulsor_collision, on the squares
Contact(b, rep) ==
    LET dx == Abs(b.x - rep.x)
        dy == Abs(b.y - rep.y)
        reach == b.radius + rep.radius
    IN  dx < reach /\ dy < reach /\ dx * dx + dy * dy < reach * reach

\* the unit vector from the repulsor to the ball, (1, 0) when they coincide
ContactNormal(b, rep) ==
    LET dx == b.x - rep.x
        dy == b.y - rep.y
        dist == hypot(dx, dy)
    IN  IF dist > 0 THEN <<Div(dx, dist), Div(dy, dist)>> ELSE <<SCALE, 0>>

\* C12: the rebound of a repulsor contact depends on the level number only.
\* On level 4 the velocity is the contact normal times 4 x max(incoming
\* speed, 1), so a ball at rest leaves with speed 4; on level 5 it is -4
\* times the incoming velocity, and a ball at rest stays at rest; on the
\* other levels each component is multiplied by -1.1; without contact the
\* call returns False and the ball is as it was.  Magnitudes are compared up
\* to the rounding of the normal and of the products.
C12_RepulsorRebound ==
    unit.op = "repulsor" =>
        LET pre == unit.pre
            incoming == hypot(pre.velocity_x, pre.velocity_y)
            want == 4 * Max(incoming, SCALE)
            n == ContactNormal(pre, unit.rep)
            tol == want \div SCALE + 2
        IN  IF ~Contact(pre, unit.rep)
            THEN ~unit.hit /\ ball = pre
            ELSE /\ unit.hit
                 /\ unit.level = 4 =>
                       /\ ball.velocity_x = Mul(n[1], want)
                       /\ ball.velocity_y = Mul(n[2], want)
                       /\ Abs(hypot(ball.velocity_x, ball.velocity_y) - want) <= tol
                       /\ incoming = 0 =>
                             Abs(hypot(ball.velocity_x, ball.velocity_y) - 4 * SCALE)
                                <= tol
                 /\ unit.level = 5 /\ incoming > 0 =>
                       /\ Abs(ball.velocity_x + 4 * pre.velocity_x) <= tol
                       /\ Abs(ball.velocity_y + 4 * pre.velocity_y) <= tol
                 /\ unit.level = 5 /\ incoming = 0 =>
                       /\ ball.velocity_x = pre.velocity_x
                       /\ ball.velocity_y = pre.velocity_y
                 /\ unit.level \notin {4, 5} =>
                       /\ Abs(10 * ball.velocity_x + 11 * pre.velocity_x) <= 5
                       /\ Abs(10 * ball.velocity_y + 11 * pre.velocity_y) <= 5

\* a ball at rest on a level-4 repulsor's centre leaves to the right with
\* speed 4
C12_Witness ==
    /\ unit.op = "repulsor"
    /\ unit.hit
    /\ unit.level = 4
    /\ unit.pre.velocity_x = 0 /\ unit.pre.velocity_y = 0
    /\ unit.pre.x = unit.rep.x /\ unit.pre.y = unit.rep.y
    /\ ball.velocity_x = 4 * SCALE /\ ball.velocity_y = 0

\* what pausing has to preserve: the ball, the obstacles, the timer, the
\* level and the win and lose flags
SimulationState ==
    <<ball, platforms, repulsors, current_level, current_level_obj,
      timer_seconds, timer_counter, game_over, game_won>>

Suspended == game_paused \/ game_over \/ game_won

\* C13: while the game is paused, over or won, a tick changes neither the
\* ball nor an obstacle nor the timer nor the level nor the win and lose
\* flags, and neither does the key or the click that ends the pause: play
\* goes on from the state it was paused in.  Only the play-again click
\* changes a suspended game.
C13_SuspendedGameIsFrozen ==
    [][Suspended /\ ~PlayAgainClick => UNCHANGED SimulationState]_vars

\* a game paused in mid-flight, a second not yet over, ticks still to come
C13_Witness ==
    /\ phase = "play"
    /\ game_paused /\ ~game_over /\ ~game_won
    /\ ball.is_moving /\ ball.velocity_x # 0
    /\ timer_counter > 0
    /\ ticks > 0 /\ ticks < MaxTicks

\* C14: a tick of a game that is neither paused nor over nor won advances
\* every platform and every repulsor of the current course once, by its own
\* update, whatever the ball is doing, and leaves the obstacles of the other
\* courses alone; no other step (a launch, a stop, a reset, a pause) changes
\* an obstacle.
C14_ObstaclesAdvanceOncePerTick ==
    [][/\ Tick /\ ~Suspended =>
            /\ platforms' =
                  [platforms EXCEPT ![current_level_obj] =
                      Level_update_platforms(platforms[current_level_obj])]
            /\ repulsors' =
                  [repulsors EXCEPT ![current_level_obj] =
                      Level_update_repulsors(repulsors[current_level_obj])]
       /\ ~(Tick /\ ~Suspended) => UNCHANGED <<platforms, repulsors>>]_vars

\* the platforms of course 2 have moved under a ball that was never launched
C14_Witness ==
    /\ phase = "play"
    /\ clicks = 0 /\ ~ball.is_moving /\ ~ball.teleporting
    /\ ticks > 1
    /\ current_level_obj = 2
    /\ platforms[2] # setup_moving_platforms(1)[2]

\* the displacement of an oscillating platform from its base
Displacement(p) ==
    IF p.move_type = "vertical" THEN Abs(p.y - p.base_y) ELSE Abs(p.x - p.base_x)

Oscillating(p) == p.move_type \in {"vertical", "horizontal"}

\* C15: an update of an oscillating platform moves it by speed x dir; if the
\* displacement from the base is then amp or more, dir is flipped and the
\* platform moves once more, the other way.  So a platform that starts on
\* its base with 0 < speed < amp stays strictly less than amp away from the
\* base, and its other coordinate never changes.
C15_OscillationStaysInsideAmplitude ==
    [][ticks' = ticks + 1 =>
          \A i \in DOMAIN platforms[1] :
              LET p == platforms[1][i]
                  q == platforms'[1][i]
                  step == p.speed * p.dir
                  moved == [p EXCEPT !.x = IF p.move_type = "horizontal"
                                           THEN p.x + step ELSE p.x,
                                     !.y = IF p.move_type = "vertical"
                                           THEN p.y + step ELSE p.y]
              IN  Oscillating(p) =>
                    /\ IF Displacement(moved) >= p.amp
                       THEN /\ q.dir = -p.dir
                            /\ Displacement(q) = Displacement(p)
                       ELSE q = moved
                    /\ 0 < p.speed /\ p.speed < p.amp => Displacement(q) < q.amp
                    /\ p.move_type = "vertical" => q.x = p.x
                    /\ p.move_type = "horizontal" => q.y = p.y]_vars

\* a platform that has turned round at the end of its swing
C15_Witness ==
    /\ phase = "obstacles"
    /\ ticks > 0
    /\ \E i \in DOMAIN platforms[1] :
          LET p == platforms[1][i]
          IN  /\ Oscillating(p)
              /\ Displacement(p) > 0
              /\ Displacement(p) + p.speed >= p.amp
              /\ IF p.move_type = "vertical"
                 THEN (p.y - p.base_y) * p.dir < 0
                 ELSE (p.x - p.base_x) * p.dir < 0

\* an extent of a drifting platform is beyond a border
PlatformOutX(p) ==
    p.x < U(BORDER_THICKNESS) \/ p.x + p.width > U(WINDOW_WIDTH) - U(BORDER_THICKNESS)

PlatformOutY(p) ==
    p.y < U(BORDER_THICKNESS) \/ p.y + p.height > U(WINDOW_HEIGHT) - U(BORDER_THICKNESS)

\* an extent of a repulsor is beyond a border
RepulsorOutX(r) ==
    \/ r.x - r.radius < U(BORDER_THICKNESS)
    \/ r.x + r.radius > U(WINDOW_WIDTH) - U(BORDER_THICKNESS)

RepulsorOutY(r) ==
    \/ r.y - r.radius < U(BORDER_THICKNESS)
    \/ r.y + r.radius > U(WINDOW_HEIGHT) - U(BORDER_THICKNESS)

\* C17: a drifting platform or repulsor that starts inside the borders is
\* beyond a border for one tick at a time.  An update inverts a drift
\* component exactly when it leaves the matching extent beyond a border, and
\* the update after that brings the extent back inside: no component is
\* inverted on two updates in a row, and no obstacle stays outside.
C17_OutOfBoundsForOneTick ==
    [][ticks' = ticks + 1 =>
          /\ \A i \in DOMAIN platforms[1] :
                LET p == platforms[1][i]
                    q == platforms'[1][i]
                IN  p.move_type = "random" =>
                      /\ q.dx = IF PlatformOutX(q) THEN -p.dx ELSE p.dx
                      /\ q.dy = IF PlatformOutY(q) THEN -p.dy ELSE p.dy
                      /\ PlatformOutX(p) => ~PlatformOutX(q)
                      /\ PlatformOutY(p) => ~PlatformOutY(q)
          /\ \A i \in DOMAIN repulsors[1] :
                LET r == repulsors[1][i]
                    q == repulsors'[1][i]
                IN  /\ q.dx = IF RepulsorOutX(q) THEN -r.dx ELSE r.dx
                    /\ q.dy = IF RepulsorOutY(q) THEN -r.dy ELSE r.dy
                    /\ RepulsorOutX(r) => ~RepulsorOutX(q)
                    /\ RepulsorOutY(r) => ~RepulsorOutY(q)]_vars

\* a drifting platform and a repulsor of the level-5 draw, each beyond a
\* border after an update
C17_Witness ==
    /\ phase = "obstacles"
    /\ ticks > 1
    /\ Len(platforms[1]) = RANDOM_PLATFORMS
    /\ \E i \in DOMAIN platforms[1] :
          PlatformOutX(platforms[1][i]) \/ PlatformOutY(platforms[1][i])
    /\ \E i \in DOMAIN repulsors[1] :
          RepulsorOutX(repulsors[1][i]) \/ RepulsorOutY(repulsors[1][i])

\* the scenario: the ball at rest at (100, 100), launched at angle 0 with
\* power 150 of 300, and one update after the launch
LaunchScenario ==
    /\ unit.op = "launch and update"
    /\ unit.pre.x = U(100) /\ unit.pre.y = U(100)
    /\ unit.angle = 0 /\ unit.power = U(150)

\* what the launch gives: in the scenario the velocity (7.5, 0), and for
\* every power up to max_power a speed of power / max_power x 15, at most 15
LaunchVelocity ==
    /\ unit.op = "launch and update" =>
          /\ unit.mid.is_moving
          /\ Abs(hypot(unit.mid.velocity_x, unit.mid.velocity_y)
                    - (unit.power * LAUNCH_SPEED) \div MAX_POWER) <= 1
          /\ hypot(unit.mid.velocity_x, unit.mid.velocity_y) <= U(LAUNCH_SPEED)
    /\ LaunchScenario =>
          unit.mid.velocity_x = 7500 /\ unit.mid.velocity_y = 0

\* C16 as stated: the launch gives the velocity (7.5, 0), and after one tick
\* without a collision the velocity is (7.35, 0) and the position is
\* (107.5, 100).
C16_LaunchThenTickAsStated ==
    /\ LaunchVelocity
    /\ LaunchScenario =>
          /\ ball.velocity_x = 7350 /\ ball.velocity_y = 0
          /\ ball.x = 107500 /\ ball.y = U(100)

\* C16, amended: the launch gives the velocity (7.5, 0), and after one tick
\* without a collision the velocity is (7.35, 0) and the position is
\* (107.35, 100): the tick applies the friction first and moves the ball by
\* the reduced velocity.
C16_LaunchThenTick ==
    /\ LaunchVelocity
    /\ LaunchScenario =>
          /\ ball.velocity_x = 7350 /\ ball.velocity_y = 0
          /\ ball.x = 107350 /\ ball.y = U(100)

C16_Witness ==
    /\ LaunchScenario
    /\ ball.is_moving
    /\ ball.x > U(100)

\* the ball penetrates none of the four arena edges
InsideBorders(b) ==
    /\ b.x >= U(BORDER_THICKNESS) + b.radius
    /\ b.x <= U(WINDOW_WIDTH) - U(BORDER_THICKNESS) - b.radius
    /\ b.y >= U(BORDER_THICKNESS) + b.radius
    /\ b.y <= U(WINDOW_HEIGHT) - U(BORDER_THICKNESS) - b.radius

\* C18: at the end of a tick in which the ball is moving, after the border,
\* wall, platform and repulsor corrections of the tick, the ball penetrates
\* none of the four arena edges.
C18_MovingBallInsideBorders ==
    phase = "play" /\ ticks > 0 /\ ball.is_moving => InsideBorders(ball)

\* the ball is inside the capture radius of the hole of the current course
InCaptureRadius ==
    HypotLess(hole_positions[current_level_obj][1] - ball.x,
              hole_positions[current_level_obj][2] - ball.y,
              Mul(U(HOLE_RADIUS), HOLE_CAPTURE_FACTOR))

\* C19: no capture is missed.  At the end of a tick of a game that is
\* neither paused nor over nor won, a ball less than hole_radius x 0.75 from
\* the hole is teleporting, or has completed the hole in that tick (and is
\* then on the next course's start position or the game is won); so is a
\* ball that the stop threshold stops on the tick it enters the radius.
C19_NoCaptureMissed ==
    phase = "play" /\ ticks > 0 /\ ~Suspended /\ InCaptureRadius
        => ball.teleporting

\* C20: game_over and game_won are never both true; from the step in which
\* the timer's expiry sets game_over on, the same tick included, no hole is
\* completed and no level is advanced; and once game_won is set, game_over
\* is not set before reset_game.
C20_TerminalFlagsExclusive ==
    [][/\ ~(game_over' /\ game_won')
       /\ game_over' => /\ current_level' = current_level
                        /\ hole_sound_plays' = hole_sound_plays
                        /\ game_won' = game_won
       /\ game_won /\ ~PlayAgainClick => ~game_over']_vars

\* a hole is completed in this step: teleport_to_hole has returned True
HoleCompleted == hole_sound_plays' = hole_sound_plays + 1

\* the ball as reset_level leaves it
BallOnStart(b) ==
    /\ b.x = U(START_X) /\ b.y = U(START_Y)
    /\ b.velocity_x = 0 /\ b.velocity_y = 0
    /\ ~b.is_moving /\ ~b.teleporting

\* C21: current_level is always one of 1..5 and current_level_obj is the
\* course of that level.  current_level changes only by +1, on the
\* completion of a hole of a level below 5, which also puts the ball back
\* on the start position, stopped and not teleporting, or to 1 on
\* reset_game; game_won is set only by the completion of the hole of level
\* 5, which leaves current_level at 5.
C21_LevelIndex ==
    /\ [](current_level \in 1..TOTAL_LEVELS /\ current_level_obj = current_level)
    /\ [][/\ current_level' # current_level =>
              \/ /\ HoleCompleted
                 /\ current_level < TOTAL_LEVELS
                 /\ current_level' = current_level + 1
                 /\ BallOnStart(ball')
              \/ PlayAgainClick /\ current_level' = 1
          /\ HoleCompleted /\ current_level < TOTAL_LEVELS =>
                current_level' = current_level + 1 /\ BallOnStart(ball')
          /\ ~game_won /\ game_won' =>
                /\ HoleCompleted
                /\ current_level = TOTAL_LEVELS
                /\ current_level' = TOTAL_LEVELS]_vars

\* level 2 entered by completing the hole of level 1
C21_Witness ==
    /\ phase = "play"
    /\ hole_sound_plays > 0
    /\ current_level = 2 /\ current_level_obj = 2
    /\ BallOnStart(ball)

=============================================================================
